---- MODULE Spec2Model ----
(***************************************************************************)
(* Model of the skeletal animation core of viewer-example.py:              *)
(*   evaluate_track, evaluate_bone_transform, compute_deformed_positions,  *)
(* and of its texture lookup: _find_texture_files, _resolve_texture_path.  *)
(* Strings are sequences of one-character strings, compared by code point. *)
(* Floats are modelled exactly as rationals <<numerator, denominator>>.    *)
(* Python indices are kept 0-based; a sequence s is read with At(s, i).    *)
(***************************************************************************)
EXTENDS Integers, Sequences, FiniteSets, TLC

VARIABLES
    \* ---- evaluate_track (one call) ----
    track,        \* the M2Track argument
    anim_index,   \* the anim_index argument
    time_ms,      \* the time_ms argument
    is_quat,      \* the is_quat argument
    tpc,          \* position in evaluate_track: "entry", "search", "done", "idle"
    lo, hi,       \* the locals of the midpoint search
    tresult,      \* what the call returned (or raised)
    \* ---- compute_deformed_positions (one call) ----
    bones,        \* m2.bones
    vertices,     \* m2.vertices
    frame_anim,   \* its anim_index argument
    frame_time,   \* its time_ms argument
    dpc,          \* position: "loop", "enter", "return", "skin", "done", "idle"
    bi,           \* the bone loop index of line 405
    arg,          \* bone_index of the evaluate_bone_transform call being entered
    stack,        \* the suspended evaluate_bone_transform calls (line 385)
    ret,          \* the matrix the last finished call returned
    cache,        \* the per-call cache dict (line 403)
    bone_matrices,\* the list built by lines 404-408
    vi, j,        \* vertex and slot index of the skinning loop
    deformed,     \* the accumulator of line 412
    result,       \* the output rows written so far
    outcome,      \* "running", "ok", or the exception that ended the call
    localCount,   \* per bone: how often line 383 computed its local transform
    slotReads,    \* the (vertex, slot) pairs whose bone_indices[j] was read
    slotUses,     \* the (vertex, slot) pairs that indexed bone_matrices
    calls,        \* which call of compute_deformed_positions is running
    first,        \* what the first call returned or raised
    \* ---- _find_texture_files (one call) ----
    m2_dir,       \* the directory argument: is it a directory, and its entry names
    model_base,   \* the model_base argument
    fpc,          \* position: "start", "scan", "plain", "done", "idle"
    all_blps,     \* the sorted list of lines 449-452
    fidx,         \* how many entries of all_blps the loop of line 459 has taken
    base_skins, extra_skins,   \* the dictionaries of lines 455-456
    plain_texture,             \* line 457; None is the empty string
    tex_map,      \* the dictionary that is returned
    \* ---- _resolve_texture_path (one call) ----
    fs,           \* the files on disk, as absolute paths (lists of names)
    cwd,          \* the working directory relative paths are resolved in
    local_dir,    \* the directory argument, a path as it was spelled
    tex_path,     \* the path embedded in the model
    rpc,          \* position: "local", "walk", "done", "idle"
    ridx,         \* how many of local_dir.parents the loop of line 514 has taken
    tried,        \* the candidates whose existence was tested, in order
    resolved,     \* what the call returned (or raised)
    \* ---- M2Viewer (the editing session) ----
    m2,           \* self.m2: the animations and vertices of the loaded model
    self,         \* the fields of the M2Viewer instance
    hist,         \* the last key handler that ran, and the positions around it
    \* ---- _nlerp (a call on b and a call on -b) ----
    qa, qb, qt,   \* the arguments a, b, t
    qout,         \* <<_nlerp(a, b, t), _nlerp(a, -b, t)>> once both returned
    \* ---- two compute_deformed_positions calls in two threads ----
    other,        \* the arguments and locals of the call that is not running
    turn,         \* which of the two calls is running: 1 or 2 (0: one call only)
    \* ---- _resolve_textures (one call) ----
    m2_path,      \* the m2_path argument, a path as it was spelled
    unreadable,   \* TRUE when listing the model's directory is not permitted
    xpc,          \* position: "loop", "call", "done", "raised", "idle"
    ti,           \* the index i of the loop of line 544
    tex_files     \* the dictionary that is returned

trackVars == <<track, anim_index, time_ms, is_quat, tpc, lo, hi, tresult>>

deformVars == <<bones, vertices, frame_anim, frame_time, dpc, bi, arg, stack, ret,
                cache, bone_matrices, vi, j, deformed, result, outcome,
                localCount, slotReads, slotUses, calls, first>>

findVars == <<m2_dir, model_base, fpc, all_blps, fidx, base_skins, extra_skins,
              plain_texture, tex_map>>

pathVars == <<fs, cwd, local_dir, tex_path, rpc, ridx, tried, resolved>>

viewerVars == <<m2, self, hist>>

nlerpVars == <<qa, qb, qt, qout>>

concVars == <<other, turn>>

texVars == <<m2_path, unreadable, xpc, ti, tex_files>>

coreVars == <<trackVars, deformVars, findVars, pathVars>>
\* the variables of the editing session and of the later call models
laterVars == <<viewerVars, nlerpVars, concVars, texVars>>
\* everything but the editing session
exceptViewer == <<coreVars, nlerpVars, concVars, texVars>>
exceptNlerp == <<coreVars, viewerVars, concVars, texVars>>
\* everything but the two calls of compute_deformed_positions
exceptConc == <<trackVars, findVars, pathVars, viewerVars, nlerpVars, texVars>>
\* everything _resolve_textures and the two lookups it calls leave alone
exceptTex == <<trackVars, deformVars, viewerVars, nlerpVars, concVars>>

vars == <<trackVars, deformVars, findVars, pathVars, laterVars>>

\* ------------------------------------------------------------------ bounds
MaxKeys == 4      \* longest timestamps/values array
MaxTime == 2      \* largest timestamp
MaxRanges == 2    \* longest ranges array
MaxBones == 3     \* largest bone table
MaxVerts == 2     \* largest vertex table
MaxFrameTime == 1 \* largest time_ms of a frame
MaxCalls == 2     \* calls of compute_deformed_positions on one model

\* -------------------------------------------------------------- rationals
RECURSIVE GCD(_, _)
GCD(a, b) == IF b = 0 THEN a ELSE GCD(b, a % b)

Abs(n) == IF n < 0 THEN -n ELSE n

\* the rational n/d in lowest terms with a positive denominator (d # 0)
Rat(n, d) ==
    LET s == IF d < 0 THEN -1 ELSE 1
        g == GCD(Abs(n), Abs(d))
    IN  <<(s * n) \div g, (s * d) \div g>>

R(n) == <<n, 1>>
Zero == R(0)
One == R(1)
RAdd(a, b) == IF a[2] = 1 /\ b[2] = 1 THEN <<a[1] + b[1], 1>>
              ELSE Rat(a[1] * b[2] + b[1] * a[2], a[2] * b[2])
RNeg(a) == <<-a[1], a[2]>>
RSub(a, b) == RAdd(a, RNeg(b))
RMul(a, b) == IF a[2] = 1 /\ b[2] = 1 THEN <<a[1] * b[1], 1>>
              ELSE Rat(a[1] * b[1], a[2] * b[2])
RLt(a, b) == a[1] * b[2] < b[1] * a[2]

RECURSIVE RSum(_)
RSum(s) == IF s = <<>> THEN Zero ELSE RAdd(Head(s), RSum(Tail(s)))

\* ------------------------------------------------------- Python indexing
At(s, i) == s[i + 1]

\* s[i] with Python's negative indices; FALSE when it raises IndexError
PyIndexOk(s, i) == -Len(s) <= i /\ i < Len(s)
PyAt(s, i) == IF i < 0 THEN s[Len(s) + i + 1] ELSE s[i + 1]

Min(a, b) == IF a < b THEN a ELSE b

\* ----------------------------------------------------------------- values
\* A track value is the vector v divided by sqrt(n2); a stored sample and a
\* component-wise blend have n2 = 1, a renormalised quaternion has n2 = |v|^2.
Val(v) == [v |-> v, n2 |-> One]

NoValue == [kind |-> "None", val |-> Val(<<>>)]
Value(x) == [kind |-> "value", val |-> x]
Raised(e) == [kind |-> e, val |-> Val(<<>>)]

\* _lerp on the raw component tuples
Lerp1(a, b, t, i) == RAdd(a[i], RMul(RSub(b[i], a[i]), t))
_lerp(a, b, t) ==
    IF Len(a) = 3
    THEN <<Lerp1(a, b, t, 1), Lerp1(a, b, t, 2), Lerp1(a, b, t, 3)>>
    ELSE <<Lerp1(a, b, t, 1), Lerp1(a, b, t, 2), Lerp1(a, b, t, 3), Lerp1(a, b, t, 4)>>

_quat_dot(a, b) ==
    RSum(<<RMul(a[1], b[1]), RMul(a[2], b[2]), RMul(a[3], b[3]), RMul(a[4], b[4])>>)

QuatIdentity == Val(<<Zero, Zero, Zero, One>>)

\* _nlerp without the sign flip of lines 301-302
_nlerp_NoFlip(a, b, t) ==
    LET q == _lerp(a, b, t)
        len2 == _quat_dot(q, q)
    IN  IF len2 = Zero THEN QuatIdentity ELSE [v |-> q, n2 |-> len2]
\* _nlerp: the length test "length < 1e-10" is exact here: the squared length
\* of a blend of small rationals is either 0 or far above 1e-20.
_nlerp(a, b, t) ==
    LET b2 == IF RLt(_quat_dot(a, b), Zero)
              THEN <<RNeg(b[1]), RNeg(b[2]), RNeg(b[3]), RNeg(b[4])>> ELSE b
        q == _lerp(a, b2, t)
        len2 == _quat_dot(q, q)
    IN  IF len2 = Zero THEN QuatIdentity ELSE [v |-> q, n2 |-> len2]

\* ---------------------------------------------------------- evaluate_track
\* EntryCheck with the emptiness test off by one (start + 1 >= end)
EntryCheck_OffByOne(tr, ai) ==
    IF tr.values = <<>> THEN "None"
    ELSE IF ~(ai < Len(tr.ranges)) THEN "None"
    ELSE IF ~PyIndexOk(tr.ranges, ai) THEN "IndexError"
    ELSE LET r == PyAt(tr.ranges, ai)
         IN  IF r[1] + 1 >= r[2] \/ r[1] >= Len(tr.timestamps) THEN "None" ELSE "ok"

\* lines 326-333: the early returns; "ok" when the call goes on
EntryCheck(tr, ai) ==
    IF tr.values = <<>> THEN "None"
    ELSE IF ~(ai < Len(tr.ranges)) THEN "None"
    ELSE IF ~PyIndexOk(tr.ranges, ai) THEN "IndexError"
    ELSE LET r == PyAt(tr.ranges, ai)
         IN  IF r[1] >= r[2] \/ r[1] >= Len(tr.timestamps) THEN "None" ELSE "ok"

StartIdx(tr, ai) == PyAt(tr.ranges, ai)[1]
\* line 334
EndIdx(tr, ai) == Min(PyAt(tr.ranges, ai)[2], Len(tr.timestamps))
\* lines 337-338
GlobalTime(tr, ai, tm) == At(tr.timestamps, StartIdx(tr, ai)) + tm

\* lines 339-342: the two clamps, in the order of the code
ClampLow(tr, ai, tm) == GlobalTime(tr, ai, tm) <= At(tr.timestamps, StartIdx(tr, ai))
\* ClampHigh with > in place of >=
ClampHigh_Strict(tr, ai, tm) ==
    GlobalTime(tr, ai, tm) > At(tr.timestamps, EndIdx(tr, ai) - 1)
ClampHigh(tr, ai, tm) == GlobalTime(tr, ai, tm) >= At(tr.timestamps, EndIdx(tr, ai) - 1)

\* SearchStep with < in place of <=
SearchStep_Strict(ts, gt, l, h) ==
    LET mid == (l + h) \div 2
    IN  IF At(ts, mid) < gt THEN <<mid, h>> ELSE <<l, mid>>

\* lines 345-349: one iteration of the midpoint search
SearchStep(ts, gt, l, h) ==
    LET mid == (l + h) \div 2
    IN  IF At(ts, mid) <= gt THEN <<mid, h>> ELSE <<l, mid>>

\* lines 350-356: the interpolation policy for the bracketing pair
Interpolate(tr, gt, l, h, quat) ==
    LET ts == tr.timestamps
        vals == tr.values
    IN  IF tr.interp_type = 0 \/ At(ts, h) = At(ts, l) THEN At(vals, l)
        ELSE LET t == Rat(gt - At(ts, l), At(ts, h) - At(ts, l))
             IN  IF quat THEN _nlerp(At(vals, l).v, At(vals, h).v, t)
                 ELSE Val(_lerp(At(vals, l).v, At(vals, h).v, t))

\* lines 343-349 as a function: the pair the loop exits with
RECURSIVE Search(_, _, _, _)
Search(ts, gt, l, h) ==
    IF l < h - 1
    THEN LET s == SearchStep(ts, gt, l, h) IN Search(ts, gt, s[1], s[2])
    ELSE <<l, h>>

\* evaluate_track as a function (used by evaluate_bone_transform)
evaluate_track(tr, ai, tm, quat) ==
    LET c == EntryCheck(tr, ai)
    IN  IF c = "None" THEN NoValue
        ELSE IF c = "IndexError" THEN Raised("IndexError")
        ELSE IF ClampLow(tr, ai, tm) THEN Value(At(tr.values, StartIdx(tr, ai)))
        ELSE IF ClampHigh(tr, ai, tm) THEN Value(At(tr.values, EndIdx(tr, ai) - 1))
        ELSE LET gt == GlobalTime(tr, ai, tm)
                 p == Search(tr.timestamps, gt, StartIdx(tr, ai), EndIdx(tr, ai) - 1)
             IN  Value(Interpolate(tr, gt, p[1], p[2], quat))

\* ------------------------------------------------------------- matrices
\* a 4x4 matrix is a sequence of 4 rows of 4 rationals
RDiv(a, b) == Rat(a[1] * b[2], a[2] * b[1])

Eye4 == << <<One, Zero, Zero, Zero>>, <<Zero, One, Zero, Zero>>,
           <<Zero, Zero, One, Zero>>, <<Zero, Zero, Zero, One>> >>
\* entry (r, c) of A @ B
MatEntry(A, B, r, c) ==
    RSum(<<RMul(A[r][1], B[1][c]), RMul(A[r][2], B[2][c]),
           RMul(A[r][3], B[3][c]), RMul(A[r][4], B[4][c])>>)
MatRow(A, B, r) ==
    <<MatEntry(A, B, r, 1), MatEntry(A, B, r, 2), MatEntry(A, B, r, 3), MatEntry(A, B, r, 4)>>
MatMul(A, B) == <<MatRow(A, B, 1), MatRow(A, B, 2), MatRow(A, B, 3), MatRow(A, B, 4)>>
\* np.eye(4) with [:3, 3] = v
Translation(v) ==
    << <<One, Zero, Zero, v[1]>>, <<Zero, One, Zero, v[2]>>,
       <<Zero, Zero, One, v[3]>>, <<Zero, Zero, Zero, One>> >>
\* np.eye(4) with the diagonal set to scl[0..2] (line 374)
ScaleMat(sv) ==
    << <<sv[1], Zero, Zero, Zero>>, <<Zero, sv[2], Zero, Zero>>,
       <<Zero, Zero, sv[3], Zero>>, <<Zero, Zero, Zero, One>> >>
Two == R(2)
\* _quat_to_matrix of the quaternion q.v / sqrt(q.n2): every entry is
\* quadratic in the components, hence rational
_quat_to_matrix(q) ==
    LET x == q.v[1]  y == q.v[2]  z == q.v[3]  w == q.v[4]
        P(a, b) == RDiv(RMul(a, b), q.n2)
        xx == P(x, x)  yy == P(y, y)  zz == P(z, z)
        xy == P(x, y)  xz == P(x, z)  yz == P(y, z)
        wx == P(w, x)  wy == P(w, y)  wz == P(w, z)
    IN  << <<RSub(One, RMul(Two, RAdd(yy, zz))), RMul(Two, RSub(xy, wz)),
             RMul(Two, RAdd(xz, wy))>>,
           <<RMul(Two, RAdd(xy, wz)), RSub(One, RMul(Two, RAdd(xx, zz))),
             RMul(Two, RSub(yz, wx))>>,
           <<RMul(Two, RSub(xz, wy)), RMul(Two, RAdd(yz, wx)),
             RSub(One, RMul(Two, RAdd(xx, yy)))>> >>
\* np.eye(4) with [:3, :3] = m3 (line 377)
RotMat(m3) ==
    << <<m3[1][1], m3[1][2], m3[1][3], Zero>>, <<m3[2][1], m3[2][2], m3[2][3], Zero>>,
       <<m3[3][1], m3[3][2], m3[3][3], Zero>>, <<Zero, Zero, Zero, One>> >>
\* bone_matrices[bi] @ pos, rows 0..2 (lines 419-420)
RowDot(M, pos4, r) ==
    RSum(<<RMul(M[r][1], pos4[1]), RMul(M[r][2], pos4[2]),
           RMul(M[r][3], pos4[3]), RMul(M[r][4], pos4[4])>>)
Transform3(M, pos4) == <<RowDot(M, pos4, 1), RowDot(M, pos4, 2), RowDot(M, pos4, 3)>>

\* ------------------------------------------------ evaluate_bone_transform
\* lines 365-383: the local transform of a bone; a track without a value
\* leaves its factor at the identity
LocalTransform(bone, ai, tm) ==
    LET pivot == bone.pivot
        trans == evaluate_track(bone.translation, ai, tm, FALSE)
        rot == evaluate_track(bone.rotation, ai, tm, TRUE)
        scl == evaluate_track(bone.scale, ai, tm, FALSE)
        t_neg_pivot == Translation(<<RNeg(pivot[1]), RNeg(pivot[2]), RNeg(pivot[3])>>)
        s_mat == IF scl.kind = "value" THEN ScaleMat(scl.val.v) ELSE Eye4
        r_mat == IF rot.kind = "value" THEN RotMat(_quat_to_matrix(rot.val)) ELSE Eye4
        t_trans == IF trans.kind = "value" THEN Translation(trans.val.v) ELSE Eye4
        t_pivot == Translation(pivot)
    IN  MatMul(MatMul(MatMul(MatMul(t_pivot, t_trans), r_mat), s_mat), t_neg_pivot)

\* line 362: "cache is not None and bone_index in cache"
\* InCache of a cache that is never consulted
InCache_Never(c, b) == FALSE
InCache(c, b) == b \in DOMAIN c
\* line 384
HasParent(bone) == bone.parent >= 0
\* line 387
\* WorldOf with the factors swapped (local @ parent_mat)
WorldOf_Swapped(parent_mat, local) == MatMul(local, parent_mat)
WorldOf(parent_mat, local) == MatMul(parent_mat, local)
\* line 391
CacheStore(c, b, world) ==
    [k \in DOMAIN c \cup {b} |-> IF k = b THEN world ELSE c[k]]

\* The interpreter ends a call chain deeper than its recursion limit with
\* RecursionError (1000 frames by default); the limit is scaled to the model
\* and stays above every acyclic chain.
RecursionLimit == MaxBones + 2

\* ------------------------------------------- compute_deformed_positions
\* line 403: cache = {}
\* NewCache that keeps the dictionary of the previous call
NewCache_Kept(old) == old
NewCache(old) == <<>>
\* line 415
\* SlotSkipped without the weight test
SlotSkipped_Never(w) == FALSE
SlotSkipped(w) == w = 0
\* line 418
\* SlotInRange that also drops the slot of the last bone
SlotInRange_OffByOne(ix, mats) == ix < Len(mats) - 1
SlotInRange(ix, mats) == ix < Len(mats)
\* lines 419-420: deformed += (w / 255.0) * transformed[:3]
\* Accumulate with the weight divided by 256
Accumulate_256(acc, w, M, pos) ==
    LET t3 == Transform3(M, <<pos[1], pos[2], pos[3], One>>)
    IN  <<RAdd(acc[1], RMul(Rat(w, 256), t3[1])),
          RAdd(acc[2], RMul(Rat(w, 256), t3[2])),
          RAdd(acc[3], RMul(Rat(w, 256), t3[3]))>>
Accumulate(acc, w, M, pos) ==
    LET t3 == Transform3(M, <<pos[1], pos[2], pos[3], One>>)
    IN  <<RAdd(acc[1], RMul(Rat(w, 255), t3[1])),
          RAdd(acc[2], RMul(Rat(w, 255), t3[2])),
          RAdd(acc[3], RMul(Rat(w, 255), t3[3]))>>
\* line 412
\* Zero3 of an accumulator that does not start at the origin
Zero3_Offset == <<One, Zero, Zero>>
Zero3 == <<Zero, Zero, Zero>>

\* ---- the inputs of one compute_deformed_positions call
EmptyTrack == [interp_type |-> 0, ranges |-> <<>>, timestamps |-> <<>>, values |-> <<>>]
KeyTrack(a, b) ==
    [interp_type |-> 1, ranges |-> << <<0, 2>> >>, timestamps |-> <<0, 2>>,
     values |-> <<Val(a), Val(b)>>]
TransTrack(b) == KeyTrack(<<R(b + 1), R(0), R(0)>>, <<R(b + 1), R(2), R(0)>>)
RotTrack(b) ==
    IF b % 2 = 0
    THEN KeyTrack(<<R(0), R(0), R(0), R(1)>>, <<R(1), R(0), R(0), R(0)>>)
    ELSE KeyTrack(<<R(0), R(0), R(1), R(0)>>, <<R(0), R(0), R(0), R(1)>>)
SclTrack(b) == KeyTrack(<<R(2), R(1), R(1)>>, <<R(2), R(3), R(1)>>)
\* which of the three tracks bone b holds under pose kind k
PoseMask(b, k) == (k + 3 * b) % 8
MakeBone(b, par, k) ==
    [parent |-> par,
     pivot |-> <<R(b + 1), R(1), R(0)>>,
     translation |-> IF PoseMask(b, k) % 2 = 1 THEN TransTrack(b) ELSE EmptyTrack,
     rotation |-> IF (PoseMask(b, k) \div 2) % 2 = 1 THEN RotTrack(b) ELSE EmptyTrack,
     scale |-> IF PoseMask(b, k) \div 4 = 1 THEN SclTrack(b) ELSE EmptyTrack]
MakeBones(parents, k) == [i \in 1..Len(parents) |-> MakeBone(i - 1, parents[i], k)]

\* parent is an int16 of the file: the root sentinel -1, another negative
\* value, an index of the table, or an index past its end
ParentSet(n) == (0 - 2)..n
PoseKindSet == {0, 5, 7}
BoneTables ==
    UNION {{MakeBones(ps, k) : ps \in [1..n -> ParentSet(n)], k \in PoseKindSet}
           : n \in 0..MaxBones}
\* well-formed tables used to vary the vertices
SkinBoneTables ==
    {<<>>, MakeBones(<<0 - 1>>, 5), MakeBones(<<0 - 1, 0, 0>>, 7)}

\* bone_weights and bone_indices are 4 uint8 each
WeightsSet == {<<255, 0, 0, 0>>, <<0, 200, 50, 5>>, <<128, 127, 0, 0>>,
               <<100, 100, 50, 5>>, <<0, 0, 0, 0>>}
IndicesSet == {<<0, 1, 2, 0>>, <<200, 0, 1, 200>>}
MakeVertex(i, w, ix) ==
    [pos |-> <<R(i), R(2), R(0 - 3)>>, bone_weights |-> w, bone_indices |-> ix]
VertexTables ==
    UNION {{[i \in 1..n |-> MakeVertex(i, f[i][1], f[i][2])]
            : f \in [1..n -> WeightsSet \X IndicesSet]} : n \in 0..MaxVerts}
DefaultVertices == <<MakeVertex(1, <<128, 127, 0, 0>>, <<0, 1, 200, 0>>)>>

FrameAnimSet == {0, 1}

IdleDeform ==
    /\ bones = <<>> /\ vertices = <<>> /\ frame_anim = 0 /\ frame_time = 0
    /\ dpc = "idle" /\ bi = 0 /\ arg = 0 /\ stack = <<>> /\ ret = Eye4
    /\ cache = <<>> /\ bone_matrices = <<>>
    /\ vi = 0 /\ j = 0 /\ deformed = Zero3 /\ result = <<>>
    /\ outcome = "running" /\ localCount = <<>>
    /\ slotReads = {} /\ slotUses = {}
    /\ calls = 0 /\ first = <<>>

\* ---- no texture lookup is running
IdleFind ==
    /\ m2_dir = [is_dir |-> FALSE, names |-> {}] /\ model_base = <<>>
    /\ fpc = "idle" /\ all_blps = <<>> /\ fidx = 0
    /\ base_skins = <<>> /\ extra_skins = <<>> /\ plain_texture = <<>>
    /\ tex_map = <<>>
IdlePath ==
    /\ fs = {} /\ cwd = <<>> /\ local_dir = [abs |-> TRUE, parts |-> <<>>]
    /\ tex_path = <<>> /\ rpc = "idle" /\ ridx = 0 /\ tried = <<>>
    /\ resolved = [kind |-> "running", path |-> [abs |-> TRUE, parts |-> <<>>]]

\* ---- the M2Viewer instance as M2Viewer.__init__ leaves it (lines 609-747)
NewViewer ==
    [selected |-> <<>>, original_positions |-> <<>>,
     motion_undo |-> <<>>, motion_redo |-> <<>>,
     weight_undo |-> <<>>, weight_redo |-> <<>>,
     selection_undo |-> <<>>, selection_redo |-> <<>>,
     mirror_map |-> <<>>,
     selection_mode |-> FALSE,
     anim_preview |-> FALSE, anim_index |-> 0, anim_time_ms |-> 0,
     bone_vis_index |-> 0,
     deformed_points |-> <<>>]
\* no key handler has run yet
NoHist == [op |-> "none", acted |-> FALSE, before |-> <<>>, after |-> <<>>]
IdleViewer ==
    /\ m2 = [animations |-> <<>>, bones |-> <<>>, vertices |-> <<>>,
            name |-> <<>>, textures |-> <<>>]
    /\ self = NewViewer /\ hist = NoHist
IdleNlerp == qa = <<>> /\ qb = <<>> /\ qt = Zero /\ qout = <<>>
IdleConc == other = <<>> /\ turn = 0
IdleTex ==
    /\ m2_path = <<>> /\ unreadable = FALSE
    /\ xpc = "idle" /\ ti = 0 /\ tex_files = <<>>
IdleLater == IdleViewer /\ IdleNlerp /\ IdleConc /\ IdleTex

\* ---- the inputs of one evaluate_track call
RECURSIVE NonDecreasing(_, _)
\* the non-decreasing sequences of length n over from..MaxTime
NonDecreasing(n, from) ==
    IF n = 0 THEN {<<>>}
    ELSE UNION {{<<t>> \o s : s \in NonDecreasing(n - 1, t)} : t \in from..MaxTime}

TimestampsSet == UNION {NonDecreasing(n, 0) : n \in 0..MaxKeys}

\* stored samples: pairwise distinct per index (vec3 keys and unit quaternions)
VecSample(i) == Val(<<R(i), R(2 * i), R(0 - i)>>)
QuatSample(i) ==
    Val(CASE i % 4 = 1 -> <<R(0), R(0), R(0), R(1)>>
          [] i % 4 = 2 -> <<R(1), R(0), R(0), R(0)>>
          [] i % 4 = 3 -> <<R(0), R(0), R(0), R(-1)>>
          [] OTHER     -> <<R(0), R(-1), R(0), R(0)>>)
ValuesFor(n, quat) == [i \in 1..n |-> IF quat THEN QuatSample(i) ELSE VecSample(i)]

\* (start_idx, end_idx) pairs as read from the file (uint32)
RangePairs == {<<s, e>> : s \in 0..MaxKeys, e \in 0..(MaxKeys + 1)}
\* ranges arrays: one animation with keys, the others empty
RangesSet ==
    {<<>>} \cup
    UNION {{[k \in 1..n |-> IF k = p THEN r ELSE <<0, 0>>] : p \in 1..n, r \in RangePairs}
           : n \in 1..MaxRanges}

AnimIndexSet == (0 - MaxRanges - 1)..MaxRanges
TimeSet == (0 - 1)..(MaxTime + 1)

IdleTrack ==
    /\ track = [interp_type |-> 0, ranges |-> <<>>, timestamps |-> <<>>, values |-> <<>>]
    /\ anim_index = 0 /\ time_ms = 0 /\ is_quat = FALSE
    /\ tpc = "idle" /\ lo = 0 /\ hi = 0 /\ tresult = NoValue
IdleCore == IdleTrack /\ IdleDeform /\ IdleFind /\ IdlePath
IdleExceptViewer == IdleCore /\ IdleNlerp /\ IdleConc /\ IdleTex
IdleExceptNlerp == IdleCore /\ IdleViewer /\ IdleConc /\ IdleTex
IdleExceptConc == IdleTrack /\ IdleFind /\ IdlePath /\ IdleViewer /\ IdleNlerp /\ IdleTex
IdleExceptTex == IdleTrack /\ IdleDeform /\ IdleNlerp /\ IdleConc

InitTrack ==
    /\ is_quat \in BOOLEAN
    /\ \E ts \in TimestampsSet, rg \in RangesSet, it \in {0, 1} :
          track = [interp_type |-> it, ranges |-> rg, timestamps |-> ts,
                   values |-> ValuesFor(Len(ts), is_quat)]
    /\ anim_index \in AnimIndexSet
    /\ time_ms \in TimeSet
    /\ tpc = "entry" /\ lo = 0 /\ hi = 0 /\ tresult = NoValue
    /\ IdleDeform /\ IdleFind /\ IdlePath /\ IdleLater

\* lines 326-343: the checks, the clamps and the set-up of the search
EvalEntry ==
    /\ tpc = "entry"
    /\ LET c == EntryCheck(track, anim_index)
       IN  IF c # "ok"
           THEN /\ tresult' = (IF c = "None" THEN NoValue ELSE Raised(c))
                /\ tpc' = "done" /\ UNCHANGED <<lo, hi>>
           ELSE IF ClampLow(track, anim_index, time_ms)
           THEN /\ tresult' = Value(At(track.values, StartIdx(track, anim_index)))
                /\ tpc' = "done" /\ UNCHANGED <<lo, hi>>
           ELSE IF ClampHigh(track, anim_index, time_ms)
           THEN /\ tresult' = Value(At(track.values, EndIdx(track, anim_index) - 1))
                /\ tpc' = "done" /\ UNCHANGED <<lo, hi>>
           ELSE /\ lo' = StartIdx(track, anim_index)
                /\ hi' = EndIdx(track, anim_index) - 1
                /\ tpc' = "search" /\ UNCHANGED tresult
    /\ UNCHANGED <<track, anim_index, time_ms, is_quat>>
    /\ UNCHANGED <<deformVars, findVars, pathVars, laterVars>>

\* lines 344-349: one pass through the body of "while lo < hi - 1"
SearchIter ==
    /\ tpc = "search"
    /\ lo < hi - 1
    /\ LET s == SearchStep(track.timestamps, GlobalTime(track, anim_index, time_ms), lo, hi)
       IN  lo' = s[1] /\ hi' = s[2]
    /\ UNCHANGED <<track, anim_index, time_ms, is_quat, tpc, tresult>>
    /\ UNCHANGED <<deformVars, findVars, pathVars, laterVars>>

\* lines 350-356: the loop condition is false; interpolate and return
SearchExit ==
    /\ tpc = "search"
    /\ ~(lo < hi - 1)
    /\ tresult' = Value(Interpolate(track, GlobalTime(track, anim_index, time_ms),
                                    lo, hi, is_quat))
    /\ tpc' = "done"
    /\ UNCHANGED <<track, anim_index, time_ms, is_quat, lo, hi>>
    /\ UNCHANGED <<deformVars, findVars, pathVars, laterVars>>

NextTrack == EvalEntry \/ SearchIter \/ SearchExit

SpecTrack == InitTrack /\ [][NextTrack]_vars

\* ---- compute_deformed_positions, step by step
InitDeform ==
    /\ IdleTrack /\ IdleFind /\ IdlePath /\ IdleLater
    /\ \/ /\ bones \in BoneTables /\ vertices = DefaultVertices
          /\ frame_anim = 0
       \/ /\ bones \in SkinBoneTables /\ vertices \in VertexTables
          /\ frame_anim \in FrameAnimSet
    /\ frame_time = MaxFrameTime
    /\ dpc = "loop" /\ bi = 0 /\ arg = 0 /\ stack = <<>> /\ ret = Eye4
    /\ cache = <<>> /\ bone_matrices = <<>>
    /\ vi = 0 /\ j = 0 /\ deformed = Zero3 /\ result = <<>>
    /\ outcome = "running"
    /\ localCount = [b \in 1..Len(bones) |-> 0]
    /\ slotReads = {} /\ slotUses = {}
    /\ calls = 1 /\ first = <<>>

inputVars == <<bones, vertices, frame_anim, frame_time>>
callVars == <<calls, first>>
skinVars == <<vi, j, deformed, result, slotReads, slotUses>>

\* lines 405-407: the loop calls evaluate_bone_transform(bones, bi, ...)
LoopCall ==
    /\ dpc = "loop" /\ bi < Len(bones)
    /\ arg' = bi /\ dpc' = "enter"
    /\ UNCHANGED <<inputVars, bi, stack, ret, cache, bone_matrices, skinVars,
                   outcome, localCount>>
    /\ UNCHANGED <<trackVars, callVars, findVars, pathVars, laterVars>>

\* line 405 exhausted: go on to the vertex loop of line 409
LoopEnd ==
    /\ dpc = "loop" /\ bi = Len(bones)
    /\ dpc' = "skin"
    /\ UNCHANGED <<inputVars, bi, arg, stack, ret, cache, bone_matrices, skinVars,
                   outcome, localCount>>
    /\ UNCHANGED <<trackVars, callVars, findVars, pathVars, laterVars>>

\* lines 362-363: the call is answered from the cache
CacheHit ==
    /\ dpc = "enter" /\ InCache(cache, arg)
    /\ ret' = cache[arg] /\ dpc' = "return"
    /\ UNCHANGED <<inputVars, bi, arg, stack, cache, bone_matrices, skinVars,
                   outcome, localCount>>
    /\ UNCHANGED <<trackVars, callVars, findVars, pathVars, laterVars>>

\* line 364: bones[bone_index] raises IndexError; the exception leaves
\* compute_deformed_positions
BoneIndexError ==
    /\ dpc = "enter" /\ ~InCache(cache, arg)
    /\ ~PyIndexOk(bones, arg)
    /\ outcome' = "IndexError" /\ dpc' = "done"
    /\ UNCHANGED <<inputVars, bi, arg, stack, ret, cache, bone_matrices, skinVars,
                   localCount>>
    /\ UNCHANGED <<trackVars, callVars, findVars, pathVars, laterVars>>

\* lines 364-389 of a bone without parent: world = local, stored and returned
EnterRoot ==
    /\ dpc = "enter" /\ ~InCache(cache, arg)
    /\ PyIndexOk(bones, arg)
    /\ LET bone == PyAt(bones, arg)
           local == LocalTransform(bone, frame_anim, frame_time)
       IN  /\ ~HasParent(bone)
           /\ localCount' = [localCount EXCEPT ![arg + 1] = @ + 1]
           /\ cache' = CacheStore(cache, arg, local)
           /\ ret' = local
    /\ dpc' = "return"
    /\ UNCHANGED <<inputVars, bi, arg, stack, bone_matrices, skinVars, outcome>>
    /\ UNCHANGED <<trackVars, callVars, findVars, pathVars, laterVars>>

\* lines 364-386 of a bone with a parent: local is computed, then the call
\* for the parent is made; past the interpreter's limit it raises instead
EnterChild ==
    /\ dpc = "enter" /\ ~InCache(cache, arg)
    /\ PyIndexOk(bones, arg)
    /\ LET bone == PyAt(bones, arg)
           local == LocalTransform(bone, frame_anim, frame_time)
       IN  /\ HasParent(bone)
           /\ localCount' = [localCount EXCEPT ![arg + 1] = @ + 1]
           /\ IF Len(stack) + 1 >= RecursionLimit
              THEN /\ outcome' = "RecursionError" /\ dpc' = "done"
                   /\ UNCHANGED <<stack, arg>>
              ELSE /\ stack' = Append(stack, [bone_index |-> arg, local |-> local])
                   /\ arg' = bone.parent
                   /\ UNCHANGED <<outcome, dpc>>
    /\ UNCHANGED <<inputVars, bi, ret, cache, bone_matrices, skinVars>>
    /\ UNCHANGED <<trackVars, callVars, findVars, pathVars, laterVars>>

\* lines 387-392: the parent's call returned into the suspended call
ReturnToChild ==
    /\ dpc = "return" /\ stack # <<>>
    /\ LET f == stack[Len(stack)]
           world == WorldOf(ret, f.local)
       IN  /\ cache' = CacheStore(cache, f.bone_index, world)
           /\ ret' = world
    /\ stack' = SubSeq(stack, 1, Len(stack) - 1)
    /\ UNCHANGED <<inputVars, bi, arg, dpc, bone_matrices, skinVars, outcome, localCount>>
    /\ UNCHANGED <<trackVars, callVars, findVars, pathVars, laterVars>>

\* line 408: the outermost call returned into the loop
ReturnToLoop ==
    /\ dpc = "return" /\ stack = <<>>
    /\ bone_matrices' = Append(bone_matrices, ret)
    /\ bi' = bi + 1 /\ dpc' = "loop"
    /\ UNCHANGED <<inputVars, arg, stack, ret, cache, skinVars, outcome, localCount>>
    /\ UNCHANGED <<trackVars, callVars, findVars, pathVars, laterVars>>

\* lines 413-420: one slot of the vertex vi
SkinSlot ==
    /\ dpc = "skin" /\ vi < Len(vertices) /\ j < 4
    /\ LET v == At(vertices, vi)
           w == At(v.bone_weights, j)
           ix == At(v.bone_indices, j)
       IN  IF SlotSkipped(w)
           THEN UNCHANGED <<deformed, slotReads, slotUses>>
           ELSE /\ slotReads' = slotReads \cup {<<vi, j>>}
                /\ IF SlotInRange(ix, bone_matrices)
                   THEN /\ slotUses' = slotUses \cup {<<vi, j>>}
                        /\ deformed' = Accumulate(deformed, w, At(bone_matrices, ix), v.pos)
                   ELSE UNCHANGED <<deformed, slotUses>>
    /\ j' = j + 1
    /\ UNCHANGED <<inputVars, dpc, bi, arg, stack, ret, cache, bone_matrices, vi,
                   result, outcome, localCount>>
    /\ UNCHANGED <<trackVars, callVars, findVars, pathVars, laterVars>>

\* line 421, then lines 410-412 of the next vertex
SkinVertexEnd ==
    /\ dpc = "skin" /\ vi < Len(vertices) /\ j = 4
    /\ result' = Append(result, deformed)
    /\ vi' = vi + 1 /\ j' = 0 /\ deformed' = Zero3
    /\ UNCHANGED <<inputVars, dpc, bi, arg, stack, ret, cache, bone_matrices,
                   outcome, localCount, slotReads, slotUses>>
    /\ UNCHANGED <<trackVars, callVars, findVars, pathVars, laterVars>>

\* line 422
SkinReturn ==
    /\ dpc = "skin" /\ vi = Len(vertices)
    /\ outcome' = "ok" /\ dpc' = "done"
    /\ UNCHANGED <<inputVars, bi, arg, stack, ret, cache, bone_matrices, skinVars,
                   localCount>>
    /\ UNCHANGED <<trackVars, callVars, findVars, pathVars, laterVars>>

\* the same frame is asked for again: lines 398-404 start the call afresh on
\* the model the previous call left behind
SecondCall ==
    /\ dpc = "done" /\ calls < MaxCalls
    /\ calls' = calls + 1
    /\ first' = IF calls = 1 THEN [result |-> result, outcome |-> outcome] ELSE first
    /\ dpc' = "loop" /\ bi' = 0 /\ arg' = 0 /\ stack' = <<>> /\ ret' = Eye4
    /\ cache' = NewCache(cache) /\ bone_matrices' = <<>>
    /\ vi' = 0 /\ j' = 0 /\ deformed' = Zero3 /\ result' = <<>>
    /\ outcome' = "running"
    /\ localCount' = [b \in 1..Len(bones) |-> 0]
    /\ slotReads' = {} /\ slotUses' = {}
    /\ UNCHANGED inputVars
    /\ UNCHANGED <<trackVars, findVars, pathVars, laterVars>>

NextDeform ==
    \/ LoopCall \/ LoopEnd \/ CacheHit \/ BoneIndexError \/ EnterRoot \/ EnterChild
    \/ ReturnToChild \/ ReturnToLoop \/ SkinSlot \/ SkinVertexEnd \/ SkinReturn
    \/ SecondCall

SpecDeform == InitDeform /\ [][NextDeform]_vars

\* ---------------------------------------------------------------- strings
\* the characters that occur, in code-point order
Chars ==
  <<"-", ".", "/", "0", "1", "2", "3", "4", "5", "6", "7", "8", "9", "A",
    "B", "C", "D", "E", "F", "G", "H", "I", "J", "K", "L", "M", "N", "O",
    "P", "Q", "R", "S", "T", "U", "V", "W", "X", "Y", "Z", "\\", "_",
    "a", "b", "c", "d", "e", "f", "g", "h", "i", "j", "k", "l", "m", "n",
    "o", "p", "q", "r", "s", "t", "u", "v", "w", "x", "y", "z">>
Ord ==
    [c \in {Chars[i] : i \in 1..Len(Chars)} |->
        CHOOSE i \in 1..Len(Chars) : Chars[i] = c]
\* str.lower() of one character and of a string
LowerChar(c) ==
    IF Ord[c] >= Ord["A"] /\ Ord[c] <= Ord["Z"]
    THEN Chars[Ord[c] - Ord["A"] + Ord["a"]] ELSE c
RECURSIVE StrLower(_)
StrLower(s) == IF s = <<>> THEN <<>> ELSE <<LowerChar(Head(s))>> \o StrLower(Tail(s))
StartsWith(s, p) == Len(p) <= Len(s) /\ SubSeq(s, 1, Len(p)) = p
EndsWith(s, p) == Len(p) <= Len(s) /\ SubSeq(s, Len(s) - Len(p) + 1, Len(s)) = p
\* a < b for Python strings
RECURSIVE StrLess(_, _)
StrLess(a, b) ==
    IF a = <<>> THEN b # <<>>
    ELSE IF b = <<>> THEN FALSE
    ELSE IF Head(a) = Head(b) THEN StrLess(Tail(a), Tail(b))
    ELSE Ord[Head(a)] < Ord[Head(b)]
\* sorted(S) of a set of strings
RECURSIVE Sorted(_)
Sorted(S) ==
    IF S = {} THEN <<>>
    ELSE LET m == CHOOSE x \in S : \A y \in S \ {x} : StrLess(x, y)
         IN  <<m>> \o Sorted(S \ {m})
\* str.rfind(c) as a 1-based position, 0 when c does not occur
RFind(s, c) ==
    LET hits == {i \in 1..Len(s) : s[i] = c}
    IN  IF hits = {} THEN 0 ELSE CHOOSE i \in hits : \A k \in hits : k <= i
\* pathlib: the suffix starts at the last dot unless that dot is the first or
\* the last character of the name
HasSuffix(name) == 1 < RFind(name, ".") /\ RFind(name, ".") < Len(name)
PathSuffix(name) ==
    IF HasSuffix(name) THEN SubSeq(name, RFind(name, "."), Len(name)) ELSE <<>>
PathStem(name) ==
    IF HasSuffix(name) THEN SubSeq(name, 1, RFind(name, ".") - 1) ELSE name
\* a dict: d[k] = v
DictPut(d, k, v) == [x \in (DOMAIN d) \cup {k} |-> IF x = k THEN v ELSE d[x]]

\* ------------------------------------------------- _find_texture_files
\* line 444
model_base_lower == StrLower(model_base)
\* line 454
skin_prefix_lower == StrLower(model_base \o <<"s", "k", "i", "n">>)
\* lines 450-451: the filter of the directory listing
IsBlpOf(name) ==
    /\ StrLower(PathSuffix(name)) = <<".", "b", "l", "p">>
    /\ StartsWith(StrLower(PathStem(name)), model_base_lower)
\* line 460
stem_lower(blp) == StrLower(PathStem(blp))
\* line 461
IsPlain(blp) == stem_lower(blp) = model_base_lower
\* line 464
IsSkin(blp) == StartsWith(stem_lower(blp), skin_prefix_lower)
\* line 468: suffix = stem_lower[len(skin_prefix_lower):]
SkinSuffix(blp) ==
    SubSeq(stem_lower(blp), Len(skin_prefix_lower) + 1, Len(stem_lower(blp)))
\* line 469
IsExtra(blp) == EndsWith(SkinSuffix(blp), <<"_", "e", "x", "t", "r", "a">>)
\* line 470: key = suffix[:-6]
ExtraKey(blp) == SubSeq(SkinSuffix(blp), 1, Len(SkinSuffix(blp)) - 6)
\* lines 461-467: plain_texture after a file that is no skin
\* NextPlain that keeps the first file whatever its name
NextPlain_First(plain, blp) == IF plain = <<>> THEN blp ELSE plain
NextPlain(plain, blp) ==
    IF IsPlain(blp) THEN blp
    ELSE IF plain = <<>> THEN blp ELSE plain
\* sorted(keys, reverse=True)[0]
\* SortedReverseFirst without reverse=True
SortedReverseFirst_Ascending(K) == CHOOSE x \in K : \A y \in K \ {x} : StrLess(x, y)
SortedReverseFirst(K) == CHOOSE x \in K : \A y \in K \ {x} : StrLess(y, x)
\* line 475, as a set
paired == (DOMAIN base_skins) \cap (DOMAIN extra_skins)
\* lines 477-479
PairedMap(bs, es, K) ==
    LET key == SortedReverseFirst(K)
    IN  DictPut(DictPut(<<>>, 1, bs[key]), 8, es[key])
\* lines 481-486
\* FallbackMap that falls back to the base skin only
FallbackMap_BaseOnly(bs, es) ==
    IF DOMAIN bs # {} THEN DictPut(<<>>, 1, bs[SortedReverseFirst(DOMAIN bs)]) ELSE <<>>
FallbackMap(bs, es) ==
    LET m1 == IF DOMAIN bs # {}
              THEN DictPut(<<>>, 1, bs[SortedReverseFirst(DOMAIN bs)]) ELSE <<>>
    IN  IF DOMAIN es # {}
        THEN DictPut(m1, 8, es[SortedReverseFirst(DOMAIN es)]) ELSE m1
\* lines 488-494
\* PlainMap that adds type 11 without the test "not tex_map"
PlainMap_Always(tm, plain, blps) ==
    IF plain # <<>> THEN DictPut(tm, 11, plain)
    ELSE IF blps # <<>> THEN DictPut(tm, 11, blps[1]) ELSE tm
PlainMap(tm, plain, blps) ==
    LET m1 == IF DOMAIN tm = {} /\ plain # <<>> THEN DictPut(tm, 11, plain) ELSE tm
    IN  IF DOMAIN m1 = {} /\ blps # <<>> THEN DictPut(m1, 11, blps[1]) ELSE m1

\* ---- the directories and base names of one call
MaxFiles == 4     \* most entries of the directory
\* the entries a directory may hold, by name
File ==
  [ HeroSkin00_blp |->
      <<"H", "e", "r", "o", "S", "k", "i", "n", "0", "0", ".", "b", "l", "p">>,
    HeroSkin00_Extra_blp |->
      <<"H", "e", "r", "o", "S", "k", "i", "n", "0", "0", "_", "E", "x", "t", "r", "a", ".", "b", "l", "p">>,
    HeroSkin01_blp |->
      <<"H", "e", "r", "o", "S", "k", "i", "n", "0", "1", ".", "b", "l", "p">>,
    HeroSkin01_Extra_blp |->
      <<"H", "e", "r", "o", "S", "k", "i", "n", "0", "1", "_", "E", "x", "t", "r", "a", ".", "b", "l", "p">>,
    HeroSkin00_9_blp |->
      <<"H", "e", "r", "o", "S", "k", "i", "n", "0", "0", "_", "9", ".", "b", "l", "p">>,
    HeroSkin00_9_Extra_blp |->
      <<"H", "e", "r", "o", "S", "k", "i", "n", "0", "0", "_", "9", "_", "E", "x", "t", "r", "a", ".", "b", "l", "p">>,
    HeroSkin00_10_blp |->
      <<"H", "e", "r", "o", "S", "k", "i", "n", "0", "0", "_", "1", "0", ".", "b", "l", "p">>,
    HeroSkin00_10_Extra_blp |->
      <<"H", "e", "r", "o", "S", "k", "i", "n", "0", "0", "_", "1", "0", "_", "E", "x", "t", "r", "a", ".", "b", "l", "p">>,
    Hero_blp |->
      <<"H", "e", "r", "o", ".", "b", "l", "p">>,
    HeroHelm_blp |->
      <<"H", "e", "r", "o", "H", "e", "l", "m", ".", "b", "l", "p">>,
    HERO2_blp |->
      <<"H", "E", "R", "O", "2", ".", "b", "l", "p">>,
    heroskin00_BLP |->
      <<"h", "e", "r", "o", "s", "k", "i", "n", "0", "0", ".", "B", "L", "P">>,
    Other_blp |->
      <<"O", "t", "h", "e", "r", ".", "b", "l", "p">>,
    HeroSkin00_png |->
      <<"H", "e", "r", "o", "S", "k", "i", "n", "0", "0", ".", "p", "n", "g">> ]
NameUniverse == {File[k] : k \in DOMAIN File}
DirSet ==
    {[is_dir |-> FALSE, names |-> {}]} \cup
    {[is_dir |-> TRUE, names |-> N] :
        N \in {M \in SUBSET NameUniverse : Cardinality(M) <= MaxFiles}}
BaseSet == {<<"H", "e", "r", "o">>, <<"h", "e", "r", "o">>}

InitFind ==
    /\ IdleTrack /\ IdleDeform /\ IdlePath /\ IdleLater
    /\ m2_dir \in DirSet /\ model_base \in BaseSet
    /\ fpc = "start" /\ all_blps = <<>> /\ fidx = 0
    /\ base_skins = <<>> /\ extra_skins = <<>> /\ plain_texture = <<>>
    /\ tex_map = <<>>

\* lines 446-447
FindNotDir ==
    /\ fpc = "start" /\ ~m2_dir.is_dir
    /\ fpc' = "done"
    /\ UNCHANGED <<m2_dir, model_base, all_blps, fidx, base_skins, extra_skins,
                   plain_texture, tex_map>>
    /\ UNCHANGED <<trackVars, deformVars, pathVars, laterVars>>

\* lines 449-457
FindList ==
    /\ fpc = "start" /\ m2_dir.is_dir /\ ~unreadable
    /\ all_blps' = Sorted({n \in m2_dir.names : IsBlpOf(n)})
    /\ fpc' = "scan"
    /\ UNCHANGED <<m2_dir, model_base, fidx, base_skins, extra_skins,
                   plain_texture, tex_map>>
    /\ UNCHANGED <<trackVars, deformVars, pathVars, laterVars>>

\* lines 459-473: one file of all_blps
ClassifyStep ==
    /\ fpc = "scan" /\ fidx < Len(all_blps)
    /\ LET blp == At(all_blps, fidx)
       IN  IF IsPlain(blp) \/ ~IsSkin(blp)
           THEN /\ plain_texture' = NextPlain(plain_texture, blp)
                /\ UNCHANGED <<base_skins, extra_skins>>
           ELSE IF IsExtra(blp)
           THEN /\ extra_skins' = DictPut(extra_skins, ExtraKey(blp), blp)
                /\ UNCHANGED <<base_skins, plain_texture>>
           ELSE /\ base_skins' = DictPut(base_skins, SkinSuffix(blp), blp)
                /\ UNCHANGED <<extra_skins, plain_texture>>
    /\ fidx' = fidx + 1
    /\ UNCHANGED <<m2_dir, model_base, fpc, all_blps, tex_map>>
    /\ UNCHANGED <<trackVars, deformVars, pathVars, laterVars>>

\* lines 475-486
Select ==
    /\ fpc = "scan" /\ fidx = Len(all_blps)
    /\ tex_map' = IF paired # {} THEN PairedMap(base_skins, extra_skins, paired)
                  ELSE FallbackMap(base_skins, extra_skins)
    /\ fpc' = "plain"
    /\ UNCHANGED <<m2_dir, model_base, all_blps, fidx, base_skins, extra_skins,
                   plain_texture>>
    /\ UNCHANGED <<trackVars, deformVars, pathVars, laterVars>>

\* lines 488-496
PlainFallback ==
    /\ fpc = "plain"
    /\ tex_map' = PlainMap(tex_map, plain_texture, all_blps)
    /\ fpc' = "done"
    /\ UNCHANGED <<m2_dir, model_base, all_blps, fidx, base_skins, extra_skins,
                   plain_texture>>
    /\ UNCHANGED <<trackVars, deformVars, pathVars, laterVars>>

NextFind == FindNotDir \/ FindList \/ ClassifyStep \/ Select \/ PlainFallback

SpecFind == InitFind /\ [][NextFind]_vars

\* ------------------------------------------------ _resolve_texture_path
\* a pathlib path: absolute or relative, and its parts; "." and "/" have none
MkPath(a, ps) == [abs |-> a, parts |-> ps]
\* str.replace of one character
RECURSIVE Replace(_, _, _)
Replace(s, old, new) ==
    IF s = <<>> THEN <<>>
    ELSE <<IF Head(s) = old THEN new ELSE Head(s)>> \o Replace(Tail(s), old, new)
\* the parts of a path string: split at "/", empty parts dropped
RECURSIVE Split(_, _)
Split(s, cur) ==
    IF s = <<>> THEN (IF cur = <<>> THEN <<>> ELSE <<cur>>)
    ELSE IF Head(s) = "/"
         THEN (IF cur = <<>> THEN <<>> ELSE <<cur>>) \o Split(Tail(s), <<>>)
         ELSE Split(Tail(s), Append(cur, Head(s)))
\* Path(s)
PathOf(s) == MkPath(s # <<>> /\ Head(s) = "/", Split(s, <<>>))
\* Path.name
PathName(p) == IF p.parts = <<>> THEN <<>> ELSE p.parts[Len(p.parts)]
\* parent / s: an absolute right operand replaces the left one
Join(parent, s) ==
    IF PathOf(s).abs THEN PathOf(s)
    ELSE MkPath(parent.abs, parent.parts \o PathOf(s).parts)
\* Path.parents: the lexical ancestors, nearest first
Parents(p) ==
    [k \in 1..Len(p.parts) |-> MkPath(p.abs, SubSeq(p.parts, 1, Len(p.parts) - k))]
\* line 518: parent == parent.parent holds of "/" and of "."
IsOwnParent(p) == p.parts = <<>>
\* where the operating system looks for a path
Absolute(p) == IF p.abs THEN p.parts ELSE cwd \o p.parts
IsPrefix(a, f) == Len(a) <= Len(f) /\ SubSeq(f, 1, Len(a)) = a
\* Path.exists
Exists(p) == \E f \in fs : IsPrefix(Absolute(p), f)
\* Path.iterdir works on directories only
IsDir(p) == \E f \in fs : IsPrefix(Absolute(p), f) /\ Len(Absolute(p)) < Len(f)
\* the names Path.iterdir yields, in any order
Entries(p) ==
    {f[Len(Absolute(p)) + 1] :
        f \in {g \in fs : IsPrefix(Absolute(p), g) /\ Len(Absolute(p)) < Len(g)}}
\* line 505
tex_norm == Replace(tex_path, "\\", "/")
\* line 506
tex_name == PathName(PathOf(tex_norm))
\* line 510
NameMatches(n) == StrLower(n) = StrLower(tex_name)
\* the values a call ends with
Found(p) == [kind |-> "path", path |-> p]
NotFound == [kind |-> "none", path |-> MkPath(TRUE, <<>>)]
Raises == [kind |-> "error", path |-> MkPath(TRUE, <<>>)]
Running == [kind |-> "running", path |-> MkPath(TRUE, <<>>)]

\* ---- the disks, directories and embedded paths of one call
\* the names of the example tree
Nm ==
  [ proj |-> <<"p", "r", "o", "j">>,
    Models |-> <<"M", "o", "d", "e", "l", "s">>,
    Missing |-> <<"M", "i", "s", "s", "i", "n", "g">>,
    Creature |-> <<"C", "r", "e", "a", "t", "u", "r", "e">>,
    Bear |-> <<"B", "e", "a", "r">>,
    Bear_m2 |-> <<"B", "e", "a", "r", ".", "m", "2">>,
    BearSkin_blp |-> <<"B", "e", "a", "r", "S", "k", "i", "n", ".", "b", "l", "p">>,
    bearskin_BLP |-> <<"b", "e", "a", "r", "s", "k", "i", "n", ".", "B", "L", "P">>,
    BearSkin_Extra_blp |->
      <<"B", "e", "a", "r", "S", "k", "i", "n", "_", "E", "x", "t", "r", "a", ".", "b", "l", "p">>,
    Bear_blp |-> <<"B", "e", "a", "r", ".", "b", "l", "p">> ]
ModelFile == <<Nm.proj, Nm.Models, Nm.Bear_m2>>
TextureFiles ==
    { <<Nm.proj, Nm.Models, Nm.BearSkin_blp>>,
      <<Nm.proj, Nm.Models, Nm.bearskin_BLP>>,
      <<Nm.proj, Nm.Creature, Nm.Bear, Nm.BearSkin_blp>>,
      <<Nm.Creature, Nm.Bear, Nm.BearSkin_blp>>,
      <<Nm.proj, Nm.Models, Nm.Creature, Nm.Bear, Nm.BearSkin_blp>> }
DiskSet == {{ModelFile} \cup T : T \in SUBSET TextureFiles}
\* the working directory and the directory as the caller spelled it
DirSpellings ==
    { <<<<>>, MkPath(TRUE, <<Nm.proj, Nm.Models>>)>>,
      <<<<Nm.proj>>, MkPath(FALSE, <<Nm.Models>>)>>,
      <<<<>>, MkPath(FALSE, <<Nm.proj, Nm.Models>>)>>,
      <<<<Nm.proj, Nm.Models>>, MkPath(FALSE, <<>>)>>,
      <<<<>>, MkPath(TRUE, <<Nm.proj, Nm.Missing>>)>> }
TexPathSet ==
    { <<"C", "r", "e", "a", "t", "u", "r", "e", "\\", "B", "e", "a",
        "r", "\\", "B", "e", "a", "r", "S", "k", "i", "n", ".", "b",
        "l", "p">>,
      <<"C", "r", "e", "a", "t", "u", "r", "e", "/", "B", "e", "a",
        "r", "\\", "b", "e", "a", "r", "s", "k", "i", "n", ".", "b",
        "l", "p">>,
      <<"B", "e", "a", "r", "S", "k", "i", "n", ".", "b", "l", "p">> }

InitPath ==
    /\ IdleTrack /\ IdleDeform /\ IdleFind /\ IdleLater
    /\ fs \in DiskSet
    /\ \E d \in DirSpellings : cwd = d[1] /\ local_dir = d[2]
    /\ tex_path \in TexPathSet
    /\ rpc = "local" /\ ridx = 0 /\ tried = <<>> /\ resolved = Running

\* line 509: iterdir of something that is no directory, or of a directory
\* that may not be listed, raises
ListError ==
    /\ rpc = "local" /\ (~IsDir(local_dir) \/ unreadable)
    /\ resolved' = Raises /\ rpc' = "done"
    /\ UNCHANGED <<fs, cwd, local_dir, tex_path, ridx, tried>>
    /\ UNCHANGED <<trackVars, deformVars, findVars, laterVars>>

\* lines 509-511: the first entry, in listing order, with the name
LocalMatch ==
    /\ rpc = "local" /\ IsDir(local_dir) /\ ~unreadable
    /\ \E n \in Entries(local_dir) :
          /\ NameMatches(n)
          /\ resolved' = Found(MkPath(local_dir.abs, Append(local_dir.parts, n)))
    /\ rpc' = "done"
    /\ UNCHANGED <<fs, cwd, local_dir, tex_path, ridx, tried>>
    /\ UNCHANGED <<trackVars, deformVars, findVars, laterVars>>

\* lines 509-511 without a match: go on to the parents
LocalMiss ==
    /\ rpc = "local" /\ IsDir(local_dir) /\ ~unreadable
    /\ \A n \in Entries(local_dir) : ~NameMatches(n)
    /\ rpc' = "walk"
    /\ UNCHANGED <<fs, cwd, local_dir, tex_path, ridx, tried, resolved>>
    /\ UNCHANGED <<trackVars, deformVars, findVars, laterVars>>

\* lines 514-517: the candidate under the next parent exists
WalkHit ==
    /\ rpc = "walk" /\ ridx < Len(Parents(local_dir))
    /\ LET candidate == Join(Parents(local_dir)[ridx + 1], tex_norm)
       IN  /\ Exists(candidate)
           /\ tried' = Append(tried, candidate)
           /\ resolved' = Found(candidate)
    /\ rpc' = "done"
    /\ UNCHANGED <<fs, cwd, local_dir, tex_path, ridx>>
    /\ UNCHANGED <<trackVars, deformVars, findVars, laterVars>>

\* lines 514-519: it does not; stop at a parent that is its own parent
WalkMiss ==
    /\ rpc = "walk" /\ ridx < Len(Parents(local_dir))
    /\ LET parent == Parents(local_dir)[ridx + 1]
           candidate == Join(parent, tex_norm)
       IN  /\ ~Exists(candidate)
           /\ tried' = Append(tried, candidate)
           /\ IF IsOwnParent(parent)
              THEN resolved' = NotFound /\ rpc' = "done" /\ ridx' = ridx
              ELSE ridx' = ridx + 1 /\ UNCHANGED <<resolved, rpc>>
    /\ UNCHANGED <<fs, cwd, local_dir, tex_path>>
    /\ UNCHANGED <<trackVars, deformVars, findVars, laterVars>>

\* lines 514 and 521: no parent is left
WalkEnd ==
    /\ rpc = "walk" /\ ridx = Len(Parents(local_dir))
    /\ resolved' = NotFound /\ rpc' = "done"
    /\ UNCHANGED <<fs, cwd, local_dir, tex_path, ridx, tried>>
    /\ UNCHANGED <<trackVars, deformVars, findVars, laterVars>>

NextPath == ListError \/ LocalMatch \/ LocalMiss \/ WalkHit \/ WalkMiss \/ WalkEnd

SpecPath == InitPath /\ [][NextPath]_vars

\* ------------------------------------------------ claims on evaluate_track
TDone == tpc = "done"
ValidAnim == anim_index \in 0..(Len(track.ranges) - 1)
\* the range the call selected, once the early returns are passed
Selected == EntryCheck(track, anim_index) = "ok"
SelStart == PyAt(track.ranges, anim_index)[1]
SelEnd == PyAt(track.ranges, anim_index)[2]
Gt == At(track.timestamps, SelStart) + time_ms

\* C1: evaluate_track returns None exactly when the track has no keyframes,
\* anim_index is outside 0..len(ranges)-1, the range has start >= end, or
\* start is at or past the end of timestamps; otherwise it returns a value.
C1_NoValueCase ==
    \/ track.values = <<>>
    \/ ~ValidAnim
    \/ At(track.ranges, anim_index)[1] >= At(track.ranges, anim_index)[2]
    \/ At(track.ranges, anim_index)[1] >= Len(track.timestamps)
C1_NoValueExactly ==
    TDone => /\ C1_NoValueCase => tresult = NoValue
             /\ ~C1_NoValueCase => tresult.kind = "value"

\* C2 as stated: on a non-empty range [start, end) the call returns
\* values[start] whenever global_time <= timestamps[start] and values[end-1]
\* whenever global_time >= timestamps[end-1] (read here for the valid
\* animation indices).
C2_ClampBoth ==
    (TDone /\ ValidAnim /\ Selected /\ SelEnd <= Len(track.timestamps)) =>
        /\ Gt <= At(track.timestamps, SelStart)
              => tresult = Value(At(track.values, SelStart))
        /\ Gt >= At(track.timestamps, SelEnd - 1)
              => tresult = Value(At(track.values, SelEnd - 1))

\* C2 amended: the first clamp wins; values[end-1] is returned whenever
\* global_time >= timestamps[end-1] and global_time > timestamps[start].
C2_ClampOrdered ==
    (TDone /\ Selected /\ SelEnd <= Len(track.timestamps)) =>
        /\ Gt <= At(track.timestamps, SelStart)
              => tresult = Value(At(track.values, SelStart))
        /\ (Gt >= At(track.timestamps, SelEnd - 1) /\ Gt > At(track.timestamps, SelStart))
              => tresult = Value(At(track.values, SelEnd - 1))
\* the high clamp answered from a range of several keys whose last two
\* timestamps are equal
C2_Witness ==
    /\ TDone /\ Selected /\ SelEnd <= Len(track.timestamps)
    /\ SelEnd - 1 > SelStart + 1
    /\ Gt = At(track.timestamps, SelEnd - 1)
    /\ Gt > At(track.timestamps, SelStart)
    /\ At(track.timestamps, SelEnd - 2) = Gt
    /\ tresult = Value(At(track.values, SelEnd - 1))

\* C3: the midpoint search keeps timestamps[lo] <= global_time < timestamps[hi]
\* and start <= lo < hi <= end-1 at every iteration, every iteration narrows
\* hi - lo (so the loop terminates), and the loop is left with hi = lo + 1.
C3_Bracket ==
    tpc = "search" =>
        /\ At(track.timestamps, lo) <= Gt
        /\ Gt < At(track.timestamps, hi)
        /\ SelStart <= lo /\ lo < hi
        /\ hi <= Min(SelEnd, Len(track.timestamps)) - 1
C3_Progress ==
    /\ (tpc = "search" /\ tpc' = "search") => /\ hi' - lo' < hi - lo
                                              /\ hi' - lo' >= 1
    /\ (tpc = "search" /\ tpc' = "done") => hi = lo + 1
    /\ tpc = "search" => tpc' \in {"search", "done"}
C3_Search == [](C3_Bracket) /\ [][C3_Progress]_vars
\* the search after two iterations that moved both ends
C3_Witness ==
    /\ tpc = "search" /\ hi = lo + 1
    /\ lo > SelStart
    /\ hi < Min(SelEnd, Len(track.timestamps)) - 1
    /\ At(track.timestamps, lo) = Gt

\* C4: for a step track the result is None or exactly one stored sample, for
\* every animation index and every time, also when is_quat is set.
C4_StepVerbatim ==
    (TDone /\ track.interp_type = 0) =>
        \/ tresult = NoValue
        \/ \E i \in 1..Len(track.values) : tresult = Value(track.values[i])

\* C5 as stated: a track with a single keyframe returns that keyframe's value
\* for any local time (read here for the non-negative animation indices).
C5_SingleKeyAlways ==
    (TDone /\ Len(track.values) = 1 /\ anim_index >= 0)
        => tresult = Value(track.values[1])

\* C5 amended: a track with a single keyframe returns that keyframe's value
\* for any local time when anim_index is in 0..len(ranges)-1 and its range
\* is non-empty and starts at the keyframe.
C5_SingleKeySelected ==
    (/\ TDone /\ Len(track.values) = 1 /\ ValidAnim
     /\ At(track.ranges, anim_index)[1] = 0
     /\ At(track.ranges, anim_index)[2] >= 1)
        => tresult = Value(track.values[1])
C5_Witness ==
    /\ TDone /\ Len(track.values) = 1 /\ ValidAnim
    /\ At(track.ranges, anim_index) = <<0, 1>>
    /\ time_ms > 0 /\ track.interp_type = 1
    /\ tresult = Value(track.values[1])

\* ------------------------------------- claims on evaluate_bone_transform
Parent(b) == At(bones, b).parent
\* the track value of a bone at the frame, or the default of its factor
TrackOr(tr, quat, dflt) ==
    LET e == evaluate_track(tr, frame_anim, frame_time, quat)
    IN  IF e.kind = "value" THEN e.val ELSE dflt
\* T(pivot) T(translation) R(rotation) S(scale) T(-pivot) in closed form:
\* the linear part is R S, the offset is pivot + translation - R S pivot
RefLocal(b) ==
    LET bone == At(bones, b)
        p == bone.pivot
        t == TrackOr(bone.translation, FALSE, Val(Zero3)).v
        s == TrackOr(bone.scale, FALSE, Val(<<One, One, One>>)).v
        r == _quat_to_matrix(TrackOr(bone.rotation, TRUE, QuatIdentity))
        L(i, k) == RMul(r[i][k], s[k])
        Off(i) == RSub(RAdd(p[i], t[i]),
                       RSum(<<RMul(L(i, 1), p[1]), RMul(L(i, 2), p[2]), RMul(L(i, 3), p[3])>>))
    IN  << <<L(1, 1), L(1, 2), L(1, 3), Off(1)>>,
           <<L(2, 1), L(2, 2), L(2, 3), Off(2)>>,
           <<L(3, 1), L(3, 2), L(3, 3), Off(3)>>,
           <<Zero, Zero, Zero, One>> >>
\* the parent chain of b reaches a root within n steps inside the table
RECURSIVE ChainOk(_, _)
ChainOk(b, n) ==
    /\ n > 0 /\ b \in 0..(Len(bones) - 1)
    /\ (Parent(b) = 0 - 1 \/ (Parent(b) >= 0 /\ ChainOk(Parent(b), n - 1)))
Acyclic == \A b \in 0..(Len(bones) - 1) :
              Parent(b) \in (0 - 1)..(Len(bones) - 1) /\ ChainOk(b, Len(bones))
RECURSIVE RefWorld(_)
RefWorld(b) ==
    IF Parent(b) >= 0 THEN MatMul(RefWorld(Parent(b)), RefLocal(b)) ELSE RefLocal(b)
\* the bone whose call has just returned
Returned == IF stack = <<>> THEN bi ELSE Parent(stack[Len(stack)].bone_index)

\* C6: in an acyclic bone table, whatever the order of the bones, each call
\* returns parent_world . local for a bone with a parent and local for a
\* root, local being T(pivot) T(translation) R(rotation) S(scale) T(-pivot)
\* with the identity for every track without a value.
C6_WorldTransform ==
    (Acyclic /\ dpc = "return") =>
        /\ ret = RefWorld(Returned)
        /\ cache[Returned] = ret
        /\ (Parent(Returned) < 0 /\ frame_anim = 1) => ret = Eye4
\* a child declared before its parent got parent_world . local, with both
\* factors different from the identity
C6_Witness ==
    /\ Acyclic /\ dpc = "return" /\ stack = <<>>
    /\ Parent(bi) > bi
    /\ RefLocal(bi) # Eye4 /\ RefWorld(Parent(bi)) # Eye4
    /\ ret = MatMul(cache[Parent(bi)], RefLocal(bi))
    /\ ret # MatMul(RefLocal(bi), cache[Parent(bi)])

\* C7: during one frame over an acyclic bone table the local transform of
\* each bone is computed at most once, whatever the order of the bones and
\* the number of children.
C7_LocalOnce == Acyclic => \A b \in 1..Len(bones) : localCount[b] <= 1
\* a finished frame whose last bone is the parent of two earlier bones
C7_Witness ==
    /\ Acyclic /\ dpc = "done" /\ outcome = "ok" /\ Len(bones) >= 3
    /\ Parent(0) = Len(bones) - 1 /\ Parent(1) = Len(bones) - 1
    /\ \A b \in 1..Len(bones) : localCount[b] = 1

\* C8: with a parent cycle in the bone table the computation detects the
\* cycle instead of recursing on: the chain of nested calls never grows
\* past the number of bones and it is never the interpreter's recursion
\* limit that ends the call.
C8_CycleDetected == Len(stack) <= Len(bones) /\ outcome # "RecursionError"

\* C9: a bone whose parent index lies outside the table (past its end, or
\* negative other than the root sentinel -1) never gets a matrix: it is not
\* treated as a root and the call fails.
C9_OutOfRangeFails ==
    \A b \in DOMAIN cache : Parent(b) \in (0 - 1)..(Len(bones) - 1)

\* C10: the bone index of a slot with weight 0 is never read and never used
\* to index the bone matrices.
C10_ZeroWeightUntouched ==
    \A sl \in slotReads \cup slotUses :
        At(At(vertices, sl[1]).bone_weights, sl[2]) # 0
\* a finished frame with a zero-weight slot holding a stale index past the
\* bone matrices, next to a slot that was used
C10_Witness ==
    /\ dpc = "done" /\ outcome = "ok" /\ slotUses # {}
    /\ \E v \in 1..Len(vertices), k \in 1..4 :
          /\ vertices[v].bone_weights[k] = 0
          /\ vertices[v].bone_indices[k] >= Len(bone_matrices)
          /\ <<v - 1, k - 1>> \notin slotReads
          /\ \E k2 \in 1..4 : <<v - 1, k2 - 1>> \in slotUses

\* ------------------------------------------- claims on the skinning rows
\* what slot k of a vertex adds to coordinate c under the weights ws:
\* nothing for weight 0, else ws[k]/255 of the position moved by its bone
SlotTerm(ws, v, k, c) ==
    IF ws[k] = 0 THEN Zero
    ELSE RMul(Rat(ws[k], 255),
              Transform3(bone_matrices[v.bone_indices[k] + 1],
                         <<v.pos[1], v.pos[2], v.pos[3], One>>)[c])
RowUnder(ws, v) ==
    <<RSum(<<SlotTerm(ws, v, 1, 1), SlotTerm(ws, v, 2, 1),
             SlotTerm(ws, v, 3, 1), SlotTerm(ws, v, 4, 1)>>),
      RSum(<<SlotTerm(ws, v, 1, 2), SlotTerm(ws, v, 2, 2),
             SlotTerm(ws, v, 3, 2), SlotTerm(ws, v, 4, 2)>>),
      RSum(<<SlotTerm(ws, v, 1, 3), SlotTerm(ws, v, 2, 3),
             SlotTerm(ws, v, 3, 3), SlotTerm(ws, v, 4, 3)>>)>>
OutOfRange(v, k) == v.bone_indices[k] >= Len(bone_matrices)
\* the weights of v with every out-of-range slot set to weight 0
WeightsInRange(v) ==
    <<IF OutOfRange(v, 1) THEN 0 ELSE v.bone_weights[1],
      IF OutOfRange(v, 2) THEN 0 ELSE v.bone_weights[2],
      IF OutOfRange(v, 3) THEN 0 ELSE v.bone_weights[3],
      IF OutOfRange(v, 4) THEN 0 ELSE v.bone_weights[4]>>
Skinning == dpc = "skin" \/ (dpc = "done" /\ vi > 0)

\* C11: a nonzero-weight slot whose bone index lies outside the bone matrices
\* is dropped alone: the skinning loop raises nothing, and every row written
\* is the row the vertex would get with that slot's weight set to 0, so the
\* other slots of the vertex still add weight/255 of their moved position.
C11_SlotDroppedAlone ==
    /\ Skinning => outcome \in {"running", "ok"}
    /\ \A i \in 1..Len(result) :
          result[i] = RowUnder(WeightsInRange(vertices[i]), vertices[i])
\* a finished frame where a vertex has a nonzero slot past the bone matrices
\* next to a nonzero slot in range, and its row is not the origin
C11_Witness ==
    /\ dpc = "done" /\ outcome = "ok"
    /\ \E i \in 1..Len(vertices) :
          /\ \E k \in 1..4 : vertices[i].bone_weights[k] # 0 /\ OutOfRange(vertices[i], k)
          /\ \E k \in 1..4 : vertices[i].bone_weights[k] # 0 /\ ~OutOfRange(vertices[i], k)
          /\ result[i] # Zero3

\* C12: a vertex whose weights sum to 255 over slots whose bones all have the
\* identity world transform is written at its rest-pose position, whatever
\* the number of slots and the split of the weights.
WeightSum(v) ==
    v.bone_weights[1] + v.bone_weights[2] + v.bone_weights[3] + v.bone_weights[4]
UsedSlots(v) == {k \in 1..4 : v.bone_weights[k] # 0}
AllIdentity(v) ==
    \A k \in UsedSlots(v) :
        ~OutOfRange(v, k) /\ bone_matrices[v.bone_indices[k] + 1] = Eye4
C12_WeightConservative ==
    \A i \in 1..Len(result) :
        (WeightSum(vertices[i]) = 255 /\ AllIdentity(vertices[i]))
            => result[i] = vertices[i].pos
\* a finished frame with a four-slot vertex and a vertex of at most two
\* slots, both fully weighted on identity bones
C12_Witness ==
    /\ dpc = "done" /\ outcome = "ok" /\ Len(result) = 2
    /\ \A i \in 1..2 : WeightSum(vertices[i]) = 255 /\ AllIdentity(vertices[i])
    /\ Cardinality(UsedSlots(vertices[1])) = 4
    /\ Cardinality(UsedSlots(vertices[2])) \in {1, 2}
    /\ vertices[2].bone_indices[1] # vertices[2].bone_indices[2]

\* C13: a call that returns gives one row per vertex, in vertex order, and
\* row i is the weighted sum over the four slots of vertex i alone.
C13_RowPerVertex ==
    /\ Skinning => Len(result) = vi
    /\ (dpc = "done" /\ outcome = "ok") =>
          /\ Len(result) = Len(vertices)
          /\ \A i \in 1..Len(vertices) :
                \A c \in 1..3 :
                    result[i][c] =
                        RSum([k \in 1..4 |->
                                IF vertices[i].bone_weights[k] # 0
                                   /\ vertices[i].bone_indices[k] < Len(bone_matrices)
                                THEN SlotTerm(vertices[i].bone_weights, vertices[i], k, c)
                                ELSE Zero])
\* a finished frame of two vertices with different weights and different rows
C13_Witness ==
    /\ dpc = "done" /\ outcome = "ok" /\ Len(vertices) = 2 /\ Len(result) = 2
    /\ vertices[1].bone_weights # vertices[2].bone_weights
    /\ result[1] # result[2] /\ result[1] # Zero3 /\ result[2] # Zero3

\* C14: asking for the same frame again gives the same rows (or the same
\* failure), the calls leave bones, their tracks and the vertices as they
\* were, and the second call starts from an empty bone cache: it computes
\* the local transform of every bone itself.
C14_SameFrame ==
    (calls > 1 /\ dpc = "done") =>
        /\ result = first.result /\ outcome = first.outcome
        /\ outcome = "ok" => \A b \in 1..Len(bones) : localCount[b] = 1
C14_Unchanged ==
    /\ bones' = bones /\ vertices' = vertices
    /\ frame_anim' = frame_anim /\ frame_time' = frame_time
C14_Idempotent == [](C14_SameFrame) /\ [][C14_Unchanged]_vars
\* a repeated call that returned rows moved by an animated child bone
C14_Witness ==
    /\ calls = 2 /\ dpc = "done" /\ outcome = "ok"
    /\ Len(bones) >= 2 /\ Len(result) >= 1
    /\ result[1] # vertices[1].pos /\ result[1] # Zero3
    /\ \E b \in 1..Len(bones) : bone_matrices[b] # Eye4

\* ------------------------------------------- claims on _find_texture_files
FDone == fpc = "done" /\ m2_dir.is_dir
\* the files of the directory the convention is about
Candidates == {n \in m2_dir.names : IsBlpOf(n)}
BaseFiles == {n \in Candidates : IsSkin(n) /\ ~IsExtra(n)}
ExtraFiles == {n \in Candidates : IsSkin(n) /\ IsExtra(n)}
BaseSuffixes == {SkinSuffix(n) : n \in BaseFiles}
ExtraSuffixes == {ExtraKey(n) : n \in ExtraFiles}
CommonSuffixes == BaseSuffixes \cap ExtraSuffixes
\* the variant suffix a skin file carries
VariantOf(n) == IF IsExtra(n) THEN ExtraKey(n) ELSE SkinSuffix(n)
Greatest(k, K) == k \in K /\ \A k2 \in K : ~StrLess(k, k2)
Hero == <<"H", "e", "r", "o">>
HeroExample == {File.HeroSkin00_blp, File.HeroSkin00_Extra_blp, File.HeroSkin01_blp}

\* C15: when the base and the extra suffixes intersect, the mapping is type 1
\* and type 8 alone, a base file and an extra file of the lexicographically
\* greatest common suffix, also when a greater base suffix has no extra; the
\* directory HeroSkin00.blp, HeroSkin00_Extra.blp, HeroSkin01.blp with base
\* name Hero gives HeroSkin00.blp and HeroSkin00_Extra.blp.
C15_PairedGreatest ==
    /\ (FDone /\ CommonSuffixes # {}) =>
          /\ DOMAIN tex_map = {1, 8}
          /\ tex_map[1] \in BaseFiles /\ tex_map[8] \in ExtraFiles
          /\ Greatest(SkinSuffix(tex_map[1]), CommonSuffixes)
          /\ Greatest(ExtraKey(tex_map[8]), CommonSuffixes)
    /\ (FDone /\ model_base = Hero
        /\ m2_dir.names = HeroExample) =>
          tex_map = (1 :> File.HeroSkin00_blp) @@ (8 :> File.HeroSkin00_Extra_blp)
\* the directory of the example, resolved
C15_Witness ==
    /\ FDone /\ model_base = Hero
    /\ m2_dir.names = HeroExample
    /\ tex_map[1] = File.HeroSkin00_blp /\ tex_map[8] = File.HeroSkin00_Extra_blp

\* C16: whenever the mapping holds both type 1 and type 8, the two files
\* carry the same variant suffix.
C16_SameVariant ==
    (FDone /\ {1, 8} \subseteq DOMAIN tex_map) =>
        VariantOf(tex_map[1]) = VariantOf(tex_map[8])

\* C17: when the base and the extra suffixes do not intersect, type 1 is
\* mapped iff a base file exists, to a base file of the greatest base suffix,
\* and type 8 is mapped iff an extra file exists, to an extra file of the
\* greatest extra suffix.
C17_IndependentFallback ==
    (FDone /\ CommonSuffixes = {}) =>
        /\ (1 \in DOMAIN tex_map) <=> (BaseFiles # {})
        /\ (8 \in DOMAIN tex_map) <=> (ExtraFiles # {})
        /\ BaseFiles # {} =>
              /\ tex_map[1] \in BaseFiles
              /\ Greatest(SkinSuffix(tex_map[1]), BaseSuffixes)
        /\ ExtraFiles # {} =>
              /\ tex_map[8] \in ExtraFiles
              /\ Greatest(ExtraKey(tex_map[8]), ExtraSuffixes)
\* a directory with two base and two extra files, no suffix in common
C17_Witness ==
    /\ FDone /\ CommonSuffixes = {}
    /\ Cardinality(BaseSuffixes) = 2 /\ Cardinality(ExtraSuffixes) = 2
    /\ DOMAIN tex_map = {1, 8}

\* C18 as stated: without base and extra files, the mapping is type 11 alone,
\* the first file of the scan that is named like the model.
NoSkins == FDone /\ BaseFiles = {} /\ ExtraFiles = {} /\ Candidates # {}
C18_FirstInScan ==
    NoSkins => tex_map = (11 :> Sorted(Candidates)[1])
\* C18: without base and extra files, the mapping is type 11 alone: a file
\* whose stem is the base name (case-insensitively) when the directory has
\* one, otherwise the first file, in sorted order, whose stem begins with it.
C18_PlainPreferred ==
    NoSkins =>
        /\ DOMAIN tex_map = {11}
        /\ IF \E n \in Candidates : IsPlain(n)
           THEN tex_map[11] \in Candidates /\ IsPlain(tex_map[11])
           ELSE tex_map[11] = Sorted(Candidates)[1]
\* the file named exactly like the model is taken although another file of
\* the prefix sorts before it
C18_Witness ==
    /\ NoSkins /\ 11 \in DOMAIN tex_map
    /\ IsPlain(tex_map[11]) /\ tex_map[11] # Sorted(Candidates)[1]

\* C19: of several base+Extra pairs whose suffixes differ in the variant
\* number only, the pair with the numerically greatest number is mapped.
RECURSIVE NumOf(_)
NumOf(d) ==
    IF d = <<>> THEN 0
    ELSE NumOf(SubSeq(d, 1, Len(d) - 1)) * 10 + (Ord[d[Len(d)]] - Ord["0"])
\* a suffix is a series name up to the last underscore and a variant number
SeriesOf(k) == SubSeq(k, 1, RFind(k, "_"))
VariantNumber(k) == NumOf(SubSeq(k, RFind(k, "_") + 1, Len(k)))
C19_HighestNumbered ==
    (FDone /\ CommonSuffixes # {}) =>
        \A k \in CommonSuffixes :
            SeriesOf(k) = SeriesOf(VariantOf(tex_map[1]))
                => VariantNumber(k) <= VariantNumber(VariantOf(tex_map[1]))

\* ----------------------------------------- claims on _resolve_texture_path
\* the call ended and the directory could be listed
RDone == rpc = "done" /\ resolved.kind # "error"
LocalMatches == {n \in Entries(local_dir) : NameMatches(n)}
\* the directories above the search directory on disk, nearest first, down
\* to the filesystem root, and the file each of them is asked for
SearchDir == Absolute(local_dir)
Ancestors == [k \in 1..Len(SearchDir) |-> SubSeq(SearchDir, 1, Len(SearchDir) - k)]
CandidateAt(k) == Ancestors[k] \o Split(tex_norm, <<>>)
OnDisk(a) == \E f \in fs : IsPrefix(a, f)
Hits == {k \in 1..Len(Ancestors) : OnDisk(CandidateAt(k))}
FirstHit == CHOOSE k \in Hits : \A k2 \in Hits : k <= k2
TriedOnDisk == [i \in 1..Len(tried) |-> Absolute(tried[i])]
TriedUpTo(n) == TriedOnDisk = [i \in 1..n |-> CandidateAt(i)]

PathExample ==
    <<"C", "r", "e", "a", "t", "u", "r", "e", "\\", "B", "e", "a",
    "r", "\\", "B", "e", "a", "r", "S", "k", "i", "n", ".", "b", "l",
    "p">>

\* C20: an entry of the search directory with the final component's name
\* (case-insensitively) is returned without asking any ancestor; otherwise
\* the ancestors are asked nearest first for ancestor/normalized path, the
\* first that has it is returned and nothing farther is asked, and without
\* one the walk has gone up to the filesystem root. The model in Models/
\* that names Creature\Bear\BearSkin.blp, present one level above, is
\* resolved with exactly one ancestor asked.
C20_LocalThenWalk ==
    /\ (RDone /\ LocalMatches # {}) =>
          /\ tried = <<>>
          /\ resolved.kind = "path"
          /\ \E n \in LocalMatches : Absolute(resolved.path) = Append(SearchDir, n)
    /\ (RDone /\ LocalMatches = {} /\ Hits # {}) =>
          /\ resolved.kind = "path"
          /\ Absolute(resolved.path) = CandidateAt(FirstHit)
          /\ TriedUpTo(FirstHit)
    /\ (RDone /\ LocalMatches = {} /\ Hits = {}) =>
          /\ resolved = NotFound
          /\ TriedUpTo(Len(Ancestors))
    /\ (RDone /\ LocalMatches = {} /\ SearchDir = <<Nm.proj, Nm.Models>>
        /\ tex_path = PathExample
        /\ <<Nm.proj, Nm.Creature, Nm.Bear, Nm.BearSkin_blp>> \in fs) =>
          /\ Absolute(resolved.path) = <<Nm.proj, Nm.Creature, Nm.Bear, Nm.BearSkin_blp>>
          /\ Len(tried) = 1

\* ------------------------------------- claims on the interpolation step
\* the loop of lines 344-349 is over and line 350 is next
AtInterpolation == tpc = "search" /\ ~(lo < hi - 1)

\* C26: when evaluate_track reaches the interpolation step, timestamps[hi] is
\* strictly greater than timestamps[lo] (no division by zero, the equal
\* timestamps test of line 350 is false), the parameter t lies in [0, 1), and
\* lo is the greatest index of the range whose timestamp is <= global_time,
\* the last one of a run of duplicate timestamps.
C26_InterpolationStep ==
    AtInterpolation =>
        /\ At(track.timestamps, hi) > At(track.timestamps, lo)
        /\ 0 <= Gt - At(track.timestamps, lo)
        /\ Gt - At(track.timestamps, lo) < At(track.timestamps, hi) - At(track.timestamps, lo)
        /\ \A k \in SelStart..(Min(SelEnd, Len(track.timestamps)) - 1) :
              At(track.timestamps, k) <= Gt => k <= lo
\* the step reached on a linear track with lo on the second of two equal
\* timestamps and global_time strictly inside the bracket
C26_Witness ==
    /\ AtInterpolation /\ track.interp_type = 1
    /\ lo > SelStart /\ At(track.timestamps, lo - 1) = At(track.timestamps, lo)
    /\ Gt > At(track.timestamps, lo)

\* ------------------------------------- claims on vertices without weight
\* the slots of v that line 413-420 add to the row: nonzero weight, bone in range
Contributing(v) == {k \in 1..4 : v.bone_weights[k] # 0 /\ ~OutOfRange(v, k)}
ContributingWeight(v) ==
    WeightsInRange(v)[1] + WeightsInRange(v)[2] + WeightsInRange(v)[3] + WeightsInRange(v)[4]

\* C27: a vertex whose four weights are all 0, or whose nonzero slots all
\* have a bone index past the bone matrices, is written at the origin and not
\* at its rest position; when every contributing bone has the identity world
\* transform the row is the rest position times (sum of the contributing
\* weights) / 255.
C27_UnweightedToOrigin ==
    \A i \in 1..Len(result) :
        /\ Contributing(vertices[i]) = {} => result[i] = Zero3
        /\ (\A k \in Contributing(vertices[i]) :
                bone_matrices[vertices[i].bone_indices[k] + 1] = Eye4)
              => result[i] = <<RMul(Rat(ContributingWeight(vertices[i]), 255), vertices[i].pos[1]),
                               RMul(Rat(ContributingWeight(vertices[i]), 255), vertices[i].pos[2]),
                               RMul(Rat(ContributingWeight(vertices[i]), 255), vertices[i].pos[3])>>
\* a finished frame with an all-zero vertex away from the origin, a vertex
\* whose only nonzero slot is out of range, both rows at the origin, and a
\* partly weighted vertex on identity bones
C27_Witness ==
    /\ dpc = "done" /\ outcome = "ok" /\ Len(result) = 2 /\ Len(bone_matrices) > 0
    /\ \E i \in 1..2 :
          /\ UsedSlots(vertices[i]) = {} /\ vertices[i].pos # Zero3 /\ result[i] = Zero3
    /\ \E i \in 1..2 :
          /\ UsedSlots(vertices[i]) # {} /\ Contributing(vertices[i]) = {}
          /\ vertices[i].pos # Zero3 /\ result[i] = Zero3
\* a finished frame with a vertex whose in-range weights sum to less than 255
\* on identity bones, so its row is a proper fraction of the rest position
C27_WitnessScaled ==
    /\ dpc = "done" /\ outcome = "ok"
    /\ \E i \in 1..Len(result) :
          /\ Contributing(vertices[i]) # {}
          /\ ContributingWeight(vertices[i]) < 255
          /\ \A k \in Contributing(vertices[i]) :
                bone_matrices[vertices[i].bone_indices[k] + 1] = Eye4
          /\ result[i] # vertices[i].pos /\ result[i] # Zero3

\* =====================================================================
\* The animation keys of M2Viewer: cycle_animation, anim_step_forward,
\* anim_step_backward, toggle_anim_preview (lines 1581-1643)
\* =====================================================================
MaxAnims == 2     \* longest animation table
anim_step_ms == 33
\* durations an animation table can carry: end - start of two uint32 fields
DurationSet == {0 - 5, 0, 33, 50}
RECURSIVE AnimTablesOf(_)
AnimTablesOf(n) ==
    IF n = 0 THEN {<<>>}
    ELSE {<<[duration |-> d]>> \o s : d \in DurationSet, s \in AnimTablesOf(n - 1)}
AnimTables == UNION {AnimTablesOf(n) : n \in 0..MaxAnims}

Max(x, y) == IF x > y THEN x ELSE y
\* Python's % with a positive divisor: the result is in 0..d-1
WrapTime_NoWrap(x, d) == x
WrapTime(x, d) == x % d

\* _apply_anim_frame (lines 1625-1638): the frame whose deformed positions
\* are shown, kept as the (anim_index, anim_time_ms) pair they were computed for
ApplyAnimFrame(s) ==
    [s EXCEPT !.deformed_points = <<s.anim_index, s.anim_time_ms>>]
\* the tail "if self.anim_preview: self._apply_anim_frame()"
RefreshFrame(s) == IF s.anim_preview THEN ApplyAnimFrame(s) ELSE s
Handled(op, acted) == [op |-> op, acted |-> acted, before |-> <<>>, after |-> <<>>]

InitAnim ==
    /\ IdleExceptViewer
    /\ m2 \in {[animations |-> an, bones |-> <<>>, vertices |-> <<>>,
                 name |-> <<>>, textures |-> <<>>] : an \in AnimTables}
    /\ self = NewViewer /\ hist = NoHist

toggle_anim_preview ==
    /\ self' = IF self.anim_preview
               THEN [self EXCEPT !.anim_preview = FALSE, !.deformed_points = <<>>]
               ELSE ApplyAnimFrame([self EXCEPT !.anim_preview = TRUE])
    /\ hist' = Handled("toggle_anim_preview", TRUE)
    /\ UNCHANGED <<m2, exceptViewer>>

cycle_animation ==
    /\ IF m2.animations = <<>>
       THEN self' = self /\ hist' = Handled("cycle_animation", FALSE)
       ELSE /\ self' = RefreshFrame(
                  [self EXCEPT !.anim_index = (self.anim_index + 1) % Len(m2.animations),
                               !.anim_time_ms = 0])
            /\ hist' = Handled("cycle_animation", TRUE)
    /\ UNCHANGED <<m2, exceptViewer>>

anim_step_forward ==
    /\ IF m2.animations = <<>>
       THEN self' = self /\ hist' = Handled("anim_step_forward", FALSE)
       ELSE /\ self' = RefreshFrame(
                  [self EXCEPT !.anim_time_ms =
                      WrapTime(self.anim_time_ms + anim_step_ms,
                               Max(At(m2.animations, self.anim_index).duration, 1))])
            /\ hist' = Handled("anim_step_forward", TRUE)
    /\ UNCHANGED <<m2, exceptViewer>>

anim_step_backward ==
    /\ IF m2.animations = <<>>
       THEN self' = self /\ hist' = Handled("anim_step_backward", FALSE)
       ELSE /\ self' = RefreshFrame(
                  [self EXCEPT !.anim_time_ms =
                      WrapTime(self.anim_time_ms - anim_step_ms,
                               Max(At(m2.animations, self.anim_index).duration, 1))])
            /\ hist' = Handled("anim_step_backward", TRUE)
    /\ UNCHANGED <<m2, exceptViewer>>

NextAnim ==
    toggle_anim_preview \/ cycle_animation \/ anim_step_forward \/ anim_step_backward

SpecAnim == InitAnim /\ [][NextAnim]_vars

\* ------------------------------------- claims on the animation keys
AnimKeys == {"cycle_animation", "anim_step_forward", "anim_step_backward"}
C30_InRange ==
    m2.animations # <<>> =>
        /\ 0 <= self.anim_index /\ self.anim_index < Len(m2.animations)
        /\ 0 <= self.anim_time_ms
        /\ self.anim_time_ms < Max(At(m2.animations, self.anim_index).duration, 1)
C30_Step ==
    /\ (hist'.op = "cycle_animation" /\ m2.animations # <<>>) =>
          /\ self'.anim_index = (self.anim_index + 1) % Len(m2.animations)
          /\ self'.anim_time_ms = 0
    /\ (hist'.op \in AnimKeys /\ m2.animations = <<>>) => self' = self /\ m2' = m2
\* C30: with at least one animation, after any sequence of cycle_animation,
\* anim_step_forward and anim_step_backward, 0 <= anim_index < count and
\* 0 <= anim_time_ms < max(duration of the current animation, 1);
\* cycle_animation advances the index by one modulo the count and resets the
\* time to 0; with no animations the three operations change nothing.
C30_AnimStateInRange == [](C30_InRange) /\ [][C30_Step]_vars
\* a backward step from time 0 that wrapped to a positive time, on the
\* second animation of a table, reached by cycling
C30_Witness ==
    /\ Len(m2.animations) = 2 /\ self.anim_index = 1
    /\ hist.op = "anim_step_backward" /\ hist.acted
    /\ self.anim_time_ms = 50 - anim_step_ms

\* =====================================================================
\* _nlerp on a quaternion and on its negation (lines 299-307)
\* =====================================================================
MaxQ == 1         \* largest magnitude of a component of b
QuatA == {<<Zero, Zero, Zero, One>>, <<One, Zero, Zero, Zero>>,
          <<Rat(3, 5), Zero, Rat(4, 5), Zero>>}
QuatB == {<<R(x), R(y), R(z), R(w)>> :
             x \in (0 - MaxQ)..MaxQ, y \in (0 - MaxQ)..MaxQ,
             z \in (0 - MaxQ)..MaxQ, w \in (0 - MaxQ)..MaxQ}
          \ {<<Zero, Zero, Zero, Zero>>}
BlendSet == {Zero, Rat(1, 4), Rat(1, 2), One}
Negated(q) == <<RNeg(q[1]), RNeg(q[2]), RNeg(q[3]), RNeg(q[4])>>

InitNlerp ==
    /\ IdleExceptNlerp
    /\ qa \in QuatA /\ qb \in QuatB /\ qt \in BlendSet
    /\ qout = <<>>

NlerpBoth ==
    /\ qout = <<>>
    /\ qout' = <<_nlerp(qa, qb, qt), _nlerp(qa, Negated(qb), qt)>>
    /\ UNCHANGED <<qa, qb, qt, exceptNlerp>>

NextNlerp == NlerpBoth

SpecNlerp == InitNlerp /\ [][NextNlerp]_vars

\* ------------------------------------- claims on _nlerp
Sgn(x) == IF x[1] > 0 THEN 1 ELSE IF x[1] < 0 THEN 0 - 1 ELSE 0
\* r and s, each a vector v over the square root of n2, are the same tuple
SameTuple(r, s) ==
    \A i \in 1..4 :
        /\ Sgn(r.v[i]) = Sgn(s.v[i])
        /\ RMul(RMul(r.v[i], r.v[i]), s.n2) = RMul(RMul(s.v[i], s.v[i]), r.n2)
SameUpToSign(r, s) ==
    SameTuple(r, s) \/ SameTuple(r, [v |-> Negated(s.v), n2 |-> s.n2])

\* C24: _nlerp(A, Q, t) and _nlerp(A, -Q, t) are the same quaternion up to
\* sign for every A, Q and t, also when A and Q are orthogonal (dot = 0).
C24_NegationInvariant ==
    qout # <<>> => SameUpToSign(qout[1], qout[2])
\* what does hold: the two results agree up to sign whenever the dot product
\* of A and Q is not 0, or t is 0 or 1
C24_AwayFromOrthogonal ==
    (qout # <<>> /\ (_quat_dot(qa, qb) # Zero \/ qt \in {Zero, One})) =>
        SameUpToSign(qout[1], qout[2])
\* both calls returned, the first one flipped b (dot < 0), halfway through
\* the blend, and the common result is not the zero-length fallback
C24_Witness ==
    /\ qout # <<>> /\ RLt(_quat_dot(qa, qb), Zero) /\ qt = Rat(1, 2)
    /\ qout[1].n2 # One /\ SameUpToSign(qout[1], qout[2])
\* both calls returned on orthogonal arguments strictly inside the blend
C24_OrthogonalCase ==
    /\ qout # <<>> /\ _quat_dot(qa, qb) = Zero /\ qt \notin {Zero, One}
    /\ ~SameUpToSign(qout[1], qout[2])

\* =====================================================================
\* M2Viewer.edit_bone_weight, next_bone (lines 1680-1688, 1754-1844)
\* =====================================================================
MaxEdits == 2     \* most weight edits of one session
MaxEditVerts == 1 \* largest vertex table of the weight editor
weight_edit_delta == 25
\* weights as the file gives them: four bytes, not always summing to 255
EditWeights == {<<255, 0, 0, 0>>, <<0, 0, 0, 0>>, <<100, 100, 55, 0>>,
                <<64, 64, 64, 63>>, <<255, 255, 255, 255>>, <<1, 1, 1, 240>>,
                <<30, 100, 100, 100>>, <<128, 127, 0, 0>>}
EditIndices == {<<0, 0, 0, 0>>, <<1, 2, 0, 0>>, <<2, 1, 0, 1>>}
EditBones == <<"root", "spine", "head">>
RECURSIVE EditTablesOf(_)
EditTablesOf(n) ==
    IF n = 0 THEN {<<>>}
    ELSE {Append(s, MakeVertex(n, w, ix)) :
             s \in EditTablesOf(n - 1), w \in EditWeights, ix \in EditIndices}
EditTables == UNION {EditTablesOf(n) : n \in 1..MaxEditVerts}
\* the selections of a table of n vertices, as lists of 0-based indices
Selections(n) == {<<>>, <<0>>, <<n - 1>>} \cup {[i \in 1..n |-> n - i]}

Sum4(ws) == ws[1] + ws[2] + ws[3] + ws[4]
\* lines 1775-1779: the first slot that holds bone b, 0 when there is none
FindSlot(ix, b) ==
    IF \E k \in 1..4 : ix[k] = b
    THEN CHOOSE k \in 1..4 : ix[k] = b /\ \A l \in 1..(k - 1) : ix[l] # b
    ELSE 0
\* lines 1784-1787: the first slot of smallest weight
MinSlot(ws) ==
    CHOOSE k \in 1..4 : /\ \A l \in 1..4 : ws[l] >= ws[k]
                        /\ \A l \in 1..(k - 1) : ws[l] > ws[k]
\* line 1822 with the edited slot taking the rounding residual
FixSlot_Edited(ws, slot) == slot
\* line 1822: max(range(4), key=...) is the first slot of largest weight
FixSlot(ws, slot) ==
    CHOOSE k \in 1..4 : /\ \A l \in 1..4 : ws[l] <= ws[k]
                        /\ \A l \in 1..(k - 1) : ws[l] < ws[k]
\* int(round(n / d)) for n >= 0, d > 0; on an exact half the float product
\* may land on either side, tie says which
RoundTie(n, d, tie) ==
    LET q == n \div d
        r == n % d
    IN  IF 2 * r < d THEN q ELSE IF 2 * r > d THEN q + 1 ELSE q + tie
\* lines 1808-1816: the edited slot set, the others rescaled
Rescaled(ws, slot, new_w, ties) ==
    LET other_sum == Sum4(ws) - ws[slot]
        One4(k) == IF k = slot THEN new_w
                   ELSE IF other_sum > 0
                        THEN RoundTie(ws[k] * (255 - new_w), other_sum, ties[k])
                        ELSE ws[k]
    IN  <<One4(1), One4(2), One4(3), One4(4)>>
\* lines 1818-1823
Fixed(ws, slot) ==
    LET diff == 255 - Sum4(ws)
        f == FixSlot(ws, slot)
    IN  IF diff = 0 THEN ws ELSE [ws EXCEPT ![f] = Max(0, ws[f] + diff)]
\* lines 1825-1828
Cleaned(ix, ws, slot) ==
    LET One4(k) == IF ws[k] = 0 /\ k # slot THEN 0 ELSE ix[k]
    IN  <<One4(1), One4(2), One4(3), One4(4)>>
\* one pass of the loop body of lines 1771-1828 on vertex v for bone b
EditVertex(v, b, increase, ties) ==
    LET found == FindSlot(v.bone_indices, b)
        slot == IF found = 0 THEN MinSlot(v.bone_weights) ELSE found
        ix == IF found = 0 THEN [v.bone_indices EXCEPT ![slot] = b] ELSE v.bone_indices
        ws == IF found = 0 THEN [v.bone_weights EXCEPT ![slot] = 0] ELSE v.bone_weights
        old_w == ws[slot]
        delta == IF increase THEN weight_edit_delta ELSE 0 - weight_edit_delta
        new_w == Max(0, Min(255, old_w + delta))
        other_sum == Sum4(ws) - ws[slot]
        fixed == Fixed(Rescaled(ws, slot, new_w, ties), slot)
    IN  IF found = 0 /\ ~increase THEN [v |-> v, changed |-> FALSE, slot |-> 0]
        ELSE IF new_w = old_w \/ (other_sum = 0 /\ ~increase)
        THEN [v |-> [v EXCEPT !.bone_indices = ix, !.bone_weights = ws],
              changed |-> FALSE, slot |-> slot]
        ELSE [v |-> [v EXCEPT !.bone_weights = fixed,
                              !.bone_indices = Cleaned(ix, fixed, slot)],
              changed |-> TRUE, slot |-> slot]
Ties == [1..4 -> {0, 1}]
\* what the loop body can leave of vertex v
Outcomes(v, b, increase) == {EditVertex(v, b, increase, ties) : ties \in Ties}
RECURSIVE EditAll(_, _, _, _)
\* the tables of loop outcomes over the first n vertices; selected ones edited
EditAll(vs, n, b, increase) ==
    IF n = 0 THEN {<<>>}
    ELSE {Append(s, r) :
            s \in EditAll(vs, n - 1, b, increase),
            r \in IF \E k \in 1..Len(self.selected) : self.selected[k] = n - 1
                  THEN Outcomes(vs[n], b, increase)
                  ELSE {[v |-> vs[n], changed |-> FALSE, slot |-> 0]}}
VerticesOf(rs) == [i \in 1..Len(rs) |-> rs[i].v]
ChangedOf(rs) == {i \in 1..Len(rs) : rs[i].changed}
\* _capture_weights (lines 1034-1040) of the vertices in idx
CaptureWeights(vs, idx) ==
    [i \in idx |-> <<vs[i].bone_weights, vs[i].bone_indices>>]

InitWeight ==
    /\ IdleExceptViewer
    /\ \E vs \in EditTables :
          /\ m2 = [animations |-> <<>>, bones |-> EditBones, vertices |-> vs,
                  name |-> <<>>, textures |-> <<>>]
          /\ \E sel \in Selections(Len(vs)) : self = [NewViewer EXCEPT !.selected = sel]
    /\ hist = NoHist

next_bone ==
    /\ IF m2.bones = <<>>
       THEN self' = self /\ hist' = Handled("next_bone", FALSE)
       ELSE /\ self' = [self EXCEPT !.bone_vis_index = (self.bone_vis_index + 1) % Len(m2.bones)]
            /\ hist' = Handled("next_bone", TRUE)
    /\ UNCHANGED <<m2, exceptViewer>>

edit_bone_weight ==
    /\ Len(self.weight_undo) < MaxEdits
    /\ \E increase \in BOOLEAN :
          IF self.selected = <<>>
          THEN /\ UNCHANGED <<m2, self>>
               /\ hist' = Handled("edit_bone_weight", FALSE)
          ELSE \E rs \in EditAll(m2.vertices, Len(m2.vertices), self.bone_vis_index, increase) :
                 /\ m2' = [m2 EXCEPT !.vertices = VerticesOf(rs)]
                 /\ self' = IF ChangedOf(rs) = {} THEN self
                            ELSE [self EXCEPT
                                    !.weight_undo = Append(@,
                                        <<CaptureWeights(m2.vertices, ChangedOf(rs)),
                                          CaptureWeights(VerticesOf(rs), ChangedOf(rs))>>),
                                    !.weight_redo = <<>>]
                 /\ hist' = [op |-> "edit_bone_weight", acted |-> ChangedOf(rs) # {},
                             before |-> [vertices |-> m2.vertices, increase |-> increase,
                                         slots |-> [i \in 1..Len(rs) |-> rs[i].slot]],
                             after |-> ChangedOf(rs)]
    /\ UNCHANGED exceptViewer

NextWeight == next_bone \/ edit_bone_weight

SpecWeight == InitWeight /\ [][NextWeight]_vars

\* ------------------------------------- claims on edit_bone_weight
\* vertex i (1-based) before the last edit, the slot the edit worked on, and
\* the weights as lines 1781-1791 left them before the adjustment
BeforeV(i) == hist.before.vertices[i]
SlotOf(i) == hist.before.slots[i]
PreparedW(i) ==
    IF BeforeV(i).bone_indices[SlotOf(i)] = self.bone_vis_index
    THEN BeforeV(i).bone_weights
    ELSE [BeforeV(i).bone_weights EXCEPT ![SlotOf(i)] = 0]
TargetW(i) ==
    Max(0, Min(255, PreparedW(i)[SlotOf(i)]
                    + (IF hist.before.increase THEN weight_edit_delta
                       ELSE 0 - weight_edit_delta)))
\* the weights ws are the rescaled weights pre with the residual 255 - sum
\* added to a slot holding the largest of pre
ResidualOnLargest(pre, ws) ==
    \E f \in 1..4 :
        /\ \A k \in 1..4 : pre[k] <= pre[f]
        /\ ws = [pre EXCEPT ![f] = pre[f] + 255 - Sum4(pre)]

\* C25: after edit_bone_weight, increasing or decreasing, every vertex it
\* changed has four weights in 0..255 that sum to exactly 255, whatever the
\* weights were before; the rounding residual went to the slot holding the
\* largest weight; and every slot other than the edited one that ends with
\* weight 0 has bone index 0.
C25_WeightsNormalised ==
    (hist.op = "edit_bone_weight" /\ hist.acted) =>
        \A i \in hist.after :
            LET v == m2.vertices[i] IN
            /\ Sum4(v.bone_weights) = 255
            /\ \A k \in 1..4 : v.bone_weights[k] \in 0..255
            /\ \E ties \in Ties :
                  ResidualOnLargest(Rescaled(PreparedW(i), SlotOf(i), TargetW(i), ties),
                                    v.bone_weights)
            /\ \A k \in 1..4 :
                  (k # SlotOf(i) /\ v.bone_weights[k] = 0) => v.bone_indices[k] = 0
\* a decrease on a vertex whose weights did not sum to 255: the rescaled
\* weights left a residual and the edited slot was not the largest
C25_Witness ==
    /\ hist.op = "edit_bone_weight" /\ hist.acted /\ ~hist.before.increase
    /\ \E i \in hist.after :
          /\ Sum4(BeforeV(i).bone_weights) # 255
          /\ \A ties \in Ties :
                LET pre == Rescaled(PreparedW(i), SlotOf(i), TargetW(i), ties)
                IN  Sum4(pre) # 255 /\ \E k \in 1..4 : pre[k] > pre[SlotOf(i)]
\* an increase for a bone the vertex did not hold: the slot of smallest weight
\* was taken over
C25_WitnessTakeover ==
    /\ hist.op = "edit_bone_weight" /\ hist.acted /\ hist.before.increase
    /\ \E i \in hist.after :
          /\ BeforeV(i).bone_indices[SlotOf(i)] # self.bone_vis_index
          /\ BeforeV(i).bone_weights[SlotOf(i)] > 0
          /\ m2.vertices[i].bone_indices[SlotOf(i)] = self.bone_vis_index
\* a changed vertex where a slot other than the edited one ends with weight
\* 0 and lost the bone index it had
C25_WitnessReset ==
    /\ hist.op = "edit_bone_weight" /\ hist.acted
    /\ \E i \in hist.after :
          \E k \in 1..4 : /\ k # SlotOf(i) /\ BeforeV(i).bone_indices[k] # 0
                          /\ m2.vertices[i].bone_weights[k] = 0
                          /\ m2.vertices[i].bone_indices[k] = 0

\* =====================================================================
\* The motion edits of M2Viewer and their undo (lines 964-1020, 1435-1453,
\* 1495-1577)
\* =====================================================================
MaxMoves == 2     \* most snapshots on the two motion stacks together
MaxPicks == 2     \* most picks of one session
\* three vertices: 0 and 1 mirror each other across Y = 0, 2 lies on the plane
MotionVertices ==
    <<[pos |-> <<R(1), R(2), R(0)>>, bone_weights |-> <<255, 0, 0, 0>>, bone_indices |-> <<0, 0, 0, 0>>],
      [pos |-> <<R(1), R(0 - 2), R(0)>>, bone_weights |-> <<255, 0, 0, 0>>, bone_indices |-> <<0, 0, 0, 0>>],
      [pos |-> <<R(3), R(0), R(1)>>, bone_weights |-> <<255, 0, 0, 0>>, bone_indices |-> <<0, 0, 0, 0>>]>>
PickSet == {<<0>>, <<1>>, <<2, 0>>}
FactorSet == {Rat(21, 20), Rat(20, 21)}

PositionsOf(vs) == [i \in 1..Len(vs) |-> vs[i].pos]
DistSq(p, q) ==
    RSum(<<RMul(RSub(p[1], q[1]), RSub(p[1], q[1])),
           RMul(RSub(p[2], q[2]), RSub(p[2], q[2])),
           RMul(RSub(p[3], q[3]), RSub(p[3], q[3]))>>)
Flipped(p) == <<p[1], RNeg(p[2]), p[3]>>
\* _build_mirror_map (lines 1516-1532): vertex index -> counterpart, 0-based;
\* np.argmin takes the first of the closest vertices
MirrorMap(vs) ==
    LET near(i) == CHOOSE k \in 1..Len(vs) :
                      /\ \A l \in 1..Len(vs) :
                            ~RLt(DistSq(vs[l].pos, Flipped(vs[i].pos)),
                                 DistSq(vs[k].pos, Flipped(vs[i].pos)))
                      /\ \A l \in 1..(k - 1) :
                            RLt(DistSq(vs[k].pos, Flipped(vs[i].pos)),
                                DistSq(vs[l].pos, Flipped(vs[i].pos)))
        has == {i \in 1..Len(vs) :
                  /\ RLt(DistSq(vs[near(i)].pos, Flipped(vs[i].pos)), Rat(1, 400))
                  /\ near(i) # i}
    IN  [i \in {k - 1 : k \in has} |-> near(i + 1) - 1]
InList(x, l) == \E k \in 1..Len(l) : l[k] = x
\* lines 1448-1450 and 1552-1554: record the position of a vertex first touched
RECURSIVE Touch(_, _, _)
Touch(orig, l, vs) ==
    IF l = <<>> THEN orig
    ELSE Touch(IF Head(l) \in DOMAIN orig THEN orig
               ELSE [x \in DOMAIN orig \cup {Head(l)} |->
                        IF x = Head(l) THEN At(vs, x).pos ELSE orig[x]],
               Tail(l), vs)
\* a snapshot of the selected vertices only
CapturePositions_Selected(s, vs) ==
    [x \in {y \in DOMAIN s.original_positions : InList(y, s.selected)} |-> At(vs, x).pos]
\* _capture_positions (lines 964-967)
CapturePositions(s, vs) == [x \in DOMAIN s.original_positions |-> At(vs, x).pos]
\* _apply_positions (lines 973-984): the vertex table after the restore
ApplyPositions(s, vs, positions) ==
    [i \in 1..Len(vs) |->
        IF (i - 1) \in DOMAIN positions THEN [vs[i] EXCEPT !.pos = positions[i - 1]]
        ELSE IF (i - 1) \in DOMAIN s.original_positions
             THEN [vs[i] EXCEPT !.pos = s.original_positions[i - 1]]
             ELSE vs[i]]
\* line 1502: the centroid of the selected points
Centroid(sel, vs) ==
    LET mean(c) == RDiv(RSum([k \in 1..Len(sel) |-> At(vs, sel[k]).pos[c]]), R(Len(sel)))
    IN  <<mean(1), mean(2), mean(3)>>
\* lines 1503-1507
Scaled(sel, vs, factor) ==
    LET center == Centroid(sel, vs)
        move(p) == <<RAdd(center[1], RMul(RSub(p[1], center[1]), factor)),
                     RAdd(center[2], RMul(RSub(p[2], center[2]), factor)),
                     RAdd(center[3], RMul(RSub(p[3], center[3]), factor))>>
    IN  [i \in 1..Len(vs) |->
            IF InList(i - 1, sel) THEN [vs[i] EXCEPT !.pos = move(vs[i].pos)] ELSE vs[i]]
\* lines 1541-1546: the (source, counterpart) pairs of the selection
RECURSIVE MirrorPairs(_, _, _)
MirrorPairs(l, sel, mm) ==
    IF l = <<>> THEN <<>>
    ELSE (IF Head(l) \in DOMAIN mm /\ ~InList(mm[Head(l)], sel)
          THEN <<<<Head(l), mm[Head(l)]>>>> ELSE <<>>)
         \o MirrorPairs(Tail(l), sel, mm)
\* lines 1560-1565, pair by pair
RECURSIVE Mirrored(_, _)
Mirrored(vs, pairs) ==
    IF pairs = <<>> THEN vs
    ELSE Mirrored([vs EXCEPT ![Head(pairs)[2] + 1].pos = Flipped(At(vs, Head(pairs)[1]).pos)],
                  Tail(pairs))
Dsts(pairs) == [k \in 1..Len(pairs) |-> pairs[k][2]]
\* what hist keeps of the handler before the last one
Short(h) == [op |-> h.op, acted |-> h.acted, before |-> h.before, after |-> h.after]
Moved(op, acted, vs) ==
    [op |-> op, acted |-> acted, before |-> PositionsOf(m2.vertices),
     after |-> PositionsOf(vs), prev |-> Short(hist)]

InitMotion ==
    /\ IdleExceptViewer
    /\ m2 = [animations |-> <<>>, bones |-> <<>>, vertices |-> MotionVertices,
            name |-> <<>>, textures |-> <<>>]
    /\ self = [NewViewer EXCEPT !.mirror_map = MirrorMap(MotionVertices)]
    /\ hist = NoHist

toggle_selection_mode ==
    /\ self' = [self EXCEPT !.selection_mode = ~self.selection_mode]
    /\ hist' = Moved("toggle_selection_mode", TRUE, m2.vertices)
    /\ UNCHANGED <<m2, exceptViewer>>

\* _apply_pick (lines 1435-1453) from a click or a box in selection mode
apply_pick ==
    /\ self.selection_mode /\ Len(self.selection_undo) < MaxPicks
    /\ \E new_pick \in PickSet, shift \in BOOLEAN :
          LET sel == IF shift /\ self.selected # <<>>
                     THEN self.selected \o SelectSeq(new_pick, LAMBDA x : ~InList(x, self.selected))
                     ELSE new_pick
          IN  self' = [self EXCEPT
                         !.selection_undo = Append(@, self.selected),
                         !.selection_redo = <<>>,
                         !.selected = sel,
                         !.original_positions = Touch(@, sel, m2.vertices)]
    /\ hist' = Moved("apply_pick", TRUE, m2.vertices)
    /\ UNCHANGED <<m2, exceptViewer>>

scale_selection ==
    /\ Len(self.motion_undo) + Len(self.motion_redo) < MaxMoves
    /\ \E factor \in FactorSet :
          IF self.selected = <<>> \/ ~self.selection_mode
          THEN /\ UNCHANGED <<m2, self>>
               /\ hist' = Moved("scale_selection", FALSE, m2.vertices)
          ELSE LET vs == Scaled(self.selected, m2.vertices, factor) IN
               /\ self' = [self EXCEPT
                             !.motion_undo = Append(@, CapturePositions(self, m2.vertices)),
                             !.motion_redo = <<>>]
               /\ m2' = [m2 EXCEPT !.vertices = vs]
               /\ hist' = Moved("scale_selection", TRUE, vs)
    /\ UNCHANGED exceptViewer

mirror_selection ==
    /\ Len(self.motion_undo) + Len(self.motion_redo) < MaxMoves
    /\ LET pairs == MirrorPairs(self.selected, self.selected, self.mirror_map) IN
       IF self.selected = <<>> \/ ~self.selection_mode \/ pairs = <<>>
       THEN /\ UNCHANGED <<m2, self>>
            /\ hist' = Moved("mirror_selection", FALSE, m2.vertices)
       ELSE LET touched == [self EXCEPT
                              !.original_positions = Touch(@, Dsts(pairs), m2.vertices)]
                vs == Mirrored(m2.vertices, pairs)
            IN  /\ self' = [touched EXCEPT
                              !.motion_undo = Append(@, CapturePositions(touched, m2.vertices)),
                              !.motion_redo = <<>>]
                /\ m2' = [m2 EXCEPT !.vertices = vs]
                /\ hist' = Moved("mirror_selection", TRUE, vs)
    /\ UNCHANGED exceptViewer

undo_motion ==
    /\ IF self.motion_undo = <<>>
       THEN /\ UNCHANGED <<m2, self>>
            /\ hist' = Moved("undo_motion", FALSE, m2.vertices)
       ELSE LET vs == ApplyPositions(self, m2.vertices,
                                     self.motion_undo[Len(self.motion_undo)])
            IN  /\ self' = [self EXCEPT
                              !.motion_redo = Append(@, CapturePositions(self, m2.vertices)),
                              !.motion_undo = SubSeq(@, 1, Len(@) - 1)]
                /\ m2' = [m2 EXCEPT !.vertices = vs]
                /\ hist' = Moved("undo_motion", TRUE, vs)
    /\ UNCHANGED exceptViewer

redo_motion ==
    /\ IF self.motion_redo = <<>>
       THEN /\ UNCHANGED <<m2, self>>
            /\ hist' = Moved("redo_motion", FALSE, m2.vertices)
       ELSE LET vs == ApplyPositions(self, m2.vertices,
                                     self.motion_redo[Len(self.motion_redo)])
            IN  /\ self' = [self EXCEPT
                              !.motion_undo = Append(@, CapturePositions(self, m2.vertices)),
                              !.motion_redo = SubSeq(@, 1, Len(@) - 1)]
                /\ m2' = [m2 EXCEPT !.vertices = vs]
                /\ hist' = Moved("redo_motion", TRUE, vs)
    /\ UNCHANGED exceptViewer

NextMotion ==
    \/ toggle_selection_mode \/ apply_pick \/ scale_selection \/ mirror_selection
    \/ undo_motion \/ redo_motion

SpecMotion == InitMotion /\ [][NextMotion]_vars

\* ------------------------------------- claims on motion undo and redo
MotionEdits == {"scale_selection", "mirror_selection"}
C29_Restores ==
    /\ (hist.op = "undo_motion" /\ hist.acted
        /\ hist.prev.op \in MotionEdits /\ hist.prev.acted)
          => PositionsOf(m2.vertices) = hist.prev.before
    /\ (hist.op = "redo_motion" /\ hist.acted
        /\ hist.prev.op = "undo_motion" /\ hist.prev.acted)
          => PositionsOf(m2.vertices) = hist.prev.before
    /\ (hist.op \in MotionEdits /\ hist.acted) => self.motion_redo = <<>>
C29_EmptyStack ==
    /\ (hist'.op = "undo_motion" /\ self.motion_undo = <<>>) => (m2' = m2 /\ self' = self)
    /\ (hist'.op = "redo_motion" /\ self.motion_redo = <<>>) => (m2' = m2 /\ self' = self)
\* C29: undo_motion directly after an edit (scale_selection, mirror_selection)
\* restores every vertex position to its value before the edit; redo_motion
\* directly after that restores the positions the edit had produced; every
\* new edit empties the motion redo stack; undo_motion and redo_motion on an
\* empty stack change nothing.
C29_UndoRedoInverse == [](C29_Restores) /\ [][C29_EmptyStack]_vars
\* a redo directly after the undo of a mirror edit whose counterpart had
\* been scaled before: the positions are the mirrored ones again
C29_Witness ==
    /\ hist.op = "redo_motion" /\ hist.acted
    /\ hist.prev.op = "undo_motion" /\ hist.prev.acted
    /\ PositionsOf(m2.vertices) = hist.prev.before
    /\ hist.prev.before # hist.prev.after
    /\ Len(self.motion_undo) = 2
    /\ PositionsOf(m2.vertices)[2] = Flipped(PositionsOf(m2.vertices)[1])
    /\ PositionsOf(m2.vertices)[2] # MotionVertices[2].pos
\* an undo directly after a scale of two picked vertices
C29_WitnessUndo ==
    /\ hist.op = "undo_motion" /\ hist.acted
    /\ hist.prev.op = "scale_selection" /\ hist.prev.acted
    /\ hist.prev.before # hist.prev.after
    /\ PositionsOf(m2.vertices) = hist.prev.before
    /\ Len(self.selected) = 2 /\ self.motion_redo # <<>>

\* =====================================================================
\* Two frame evaluations in two threads over the same bones and vertices
\* (lines 359-422); the interpreter may switch threads between any two steps
\* =====================================================================
\* the frames two calls can ask for
ConcFrames == {<<0, MaxFrameTime>>, <<1, MaxFrameTime>>, <<0, 0>>}
\* lines 398-404, 409: a call on frame f before its first step
CallStart(f) ==
    [frame_anim |-> f[1], frame_time |-> f[2],
     dpc |-> "loop", bi |-> 0, arg |-> 0, stack |-> <<>>, ret |-> Eye4,
     cache |-> <<>>, bone_matrices |-> <<>>,
     vi |-> 0, j |-> 0, deformed |-> Zero3, result |-> <<>>,
     outcome |-> "running",
     localCount |-> [b \in 1..Len(bones) |-> 0],
     slotReads |-> {}, slotUses |-> {}]
\* one dict shared by the two calls
SwitchCache_Shared(mine, theirs) == mine
\* line 403: the dict a call works on is the one it created itself
SwitchCache(mine, theirs) == theirs

InitConc ==
    /\ IdleExceptConc
    /\ bones \in SkinBoneTables /\ vertices = DefaultVertices
    /\ \E f \in ConcFrames, g \in ConcFrames :
          /\ f # g
          /\ frame_anim = f[1] /\ frame_time = f[2]
          /\ other = CallStart(g)
    /\ dpc = "loop" /\ bi = 0 /\ arg = 0 /\ stack = <<>> /\ ret = Eye4
    /\ cache = <<>> /\ bone_matrices = <<>>
    /\ vi = 0 /\ j = 0 /\ deformed = Zero3 /\ result = <<>>
    /\ outcome = "running"
    /\ localCount = [b \in 1..Len(bones) |-> 0]
    /\ slotReads = {} /\ slotUses = {}
    /\ calls = MaxCalls /\ first = <<>>
    /\ turn = 1

\* the running thread is suspended and the other one resumes
Switch ==
    /\ other.dpc # "done"
    /\ other' = [frame_anim |-> frame_anim, frame_time |-> frame_time,
                 dpc |-> dpc, bi |-> bi, arg |-> arg, stack |-> stack, ret |-> ret,
                 cache |-> cache, bone_matrices |-> bone_matrices,
                 vi |-> vi, j |-> j, deformed |-> deformed, result |-> result,
                 outcome |-> outcome, localCount |-> localCount,
                 slotReads |-> slotReads, slotUses |-> slotUses]
    /\ frame_anim' = other.frame_anim /\ frame_time' = other.frame_time
    /\ dpc' = other.dpc /\ bi' = other.bi /\ arg' = other.arg
    /\ stack' = other.stack /\ ret' = other.ret
    /\ cache' = SwitchCache(cache, other.cache)
    /\ bone_matrices' = other.bone_matrices
    /\ vi' = other.vi /\ j' = other.j /\ deformed' = other.deformed
    /\ result' = other.result /\ outcome' = other.outcome
    /\ localCount' = other.localCount
    /\ slotReads' = other.slotReads /\ slotUses' = other.slotUses
    /\ turn' = 3 - turn
    /\ UNCHANGED <<bones, vertices, callVars, exceptConc>>

NextConc ==
    \/ LoopCall \/ LoopEnd \/ CacheHit \/ EnterRoot \/ EnterChild
    \/ ReturnToChild \/ ReturnToLoop \/ SkinSlot \/ SkinVertexEnd \/ SkinReturn
    \/ Switch

SpecConc == InitConc /\ [][NextConc]_vars

\* ------------------------------------- claims on concurrent evaluations
\* C23: two frame evaluations on different frames, run in two threads over
\* the same unmodified bones and vertices, each with the cache its own call
\* created, return under every interleaving what they return alone: the
\* world matrix of every bone and the skinned row of every vertex for their
\* own frame; and every cache entry a call can read was written by itself.
C23_Isolated ==
    /\ \A b \in DOMAIN cache : localCount[b + 1] >= 1 /\ cache[b] = RefWorld(b)
    /\ dpc = "done" =>
          /\ outcome = "ok"
          /\ Len(bone_matrices) = Len(bones)
          /\ \A b \in 1..Len(bones) : bone_matrices[b] = RefWorld(b - 1)
          /\ Len(result) = Len(vertices)
          /\ \A i \in 1..Len(vertices) :
                result[i] = RowUnder(WeightsInRange(vertices[i]), vertices[i])
\* both calls have finished after running interleaved, with different rows
C23_Witness ==
    /\ dpc = "done" /\ other.dpc = "done" /\ turn = 1
    /\ outcome = "ok" /\ other.outcome = "ok"
    /\ result # other.result
    /\ Len(bones) = 3 /\ bone_matrices # other.bone_matrices
\* both calls are in the bone loop, each with an entry for bone 0 in its own
\* cache, and the two entries differ
C23_WitnessMidFlight ==
    /\ dpc \in {"enter", "return"} /\ other.dpc \in {"enter", "return"}
    /\ 0 \in DOMAIN cache /\ 0 \in DOMAIN other.cache
    /\ cache[0] # other.cache[0]

\* =====================================================================
\* _resolve_textures (lines 524-560): one call, with the calls it makes to
\* _find_texture_files and _resolve_texture_path
\* =====================================================================
MaxSlots == 2     \* longest texture table
\* the character \x00 that ends the name field of a model
NUL == "NUL"
Whitespace == {" "}
\* str.strip(chars): leading and trailing characters of the set are dropped
RECURSIVE LStrip(_, _)
LStrip(s, C) == IF s # <<>> /\ Head(s) \in C THEN LStrip(Tail(s), C) ELSE s
RECURSIVE RStrip(_, _)
RStrip(s, C) ==
    IF s # <<>> /\ s[Len(s)] \in C THEN RStrip(SubSeq(s, 1, Len(s) - 1), C) ELSE s
Strip(s, C) == RStrip(LStrip(s, C), C)
\* line 536
clean_name(name) == IF name # <<>> THEN Strip(Strip(name, {NUL}), Whitespace) ELSE <<>>
\* Path.parent: "/" and "." are their own parent
PathParent(p) ==
    IF p.parts = <<>> THEN p ELSE MkPath(p.abs, SubSeq(p.parts, 1, Len(p.parts) - 1))
\* line 537
ModelBase(name, path) ==
    IF clean_name(name) # <<>> THEN PathStem(PathName(PathOf(clean_name(name))))
    ELSE PathStem(PathName(PathOf(path)))
\* the values of by_type: the entries of m2_dir as paths (line 450)
ChildPath(n) == MkPath(local_dir.abs, Append(local_dir.parts, n))
ByType(tm) == [k \in DOMAIN tm |-> ChildPath(tm[k])]

\* ---- the disks, models and texture tables of one call
TexDiskSet ==
    {{ModelFile} \cup T :
        T \in SUBSET { <<Nm.proj, Nm.Models, Nm.BearSkin_blp>>,
                       <<Nm.proj, Nm.Models, Nm.BearSkin_Extra_blp>>,
                       <<Nm.proj, Nm.Models, Nm.Bear_blp>>,
                       <<Nm.proj, Nm.Creature, Nm.Bear, Nm.BearSkin_blp>> }}
\* the working directory, m2_path as the caller spelled it, and whether the
\* model's directory refuses to be listed
ModelSpellings ==
    { <<<<>>, <<"/", "p", "r", "o", "j", "/", "M", "o", "d", "e", "l", "s", "/", "B", "e", "a", "r", ".", "m", "2">>, FALSE>>,
      <<<<Nm.proj, Nm.Models>>, <<"B", "e", "a", "r", ".", "m", "2">>, FALSE>>,
      <<<<>>, <<"/", "p", "r", "o", "j", "/", "M", "o", "d", "e", "l", "s", "/", "B", "e", "a", "r", ".", "m", "2">>, TRUE>>,
      <<<<>>, <<"/", "p", "r", "o", "j", "/", "M", "i", "s", "s", "i", "n", "g", "/", "B", "e", "a", "r", ".", "m", "2">>, FALSE>> }
\* the name field of the model
NameSet == {<<>>, <<"B", "e", "a", "r", NUL>>, <<"B", "e", "a", "r", ".", "m", "d", "x", NUL, " ">>}
\* the entries of a texture table: replaceable ones of four types, and two
\* with an embedded path
GonePath == <<"W", "o", "r", "l", "d", "\\", "G", "o", "n", "e", ".", "b", "l", "p">>
SlotSet ==
    {[type |-> y, filename |-> <<>>] : y \in {1, 2, 8, 11}} \cup
    {[type |-> 0, filename |-> PathExample], [type |-> 1, filename |-> GonePath]}
RECURSIVE TextureTablesOf(_)
TextureTablesOf(n) ==
    IF n = 0 THEN {<<>>}
    ELSE {<<x>> \o s : x \in SlotSet, s \in TextureTablesOf(n - 1)}
TextureTables == UNION {TextureTablesOf(n) : n \in 0..MaxSlots}

InitTextures ==
    /\ IdleExceptTex
    /\ self = NewViewer /\ hist = NoHist
    /\ m2 \in {[animations |-> <<>>, bones |-> <<>>, vertices |-> <<>>,
                name |-> n, textures |-> x] : n \in NameSet, x \in TextureTables}
    /\ fs \in TexDiskSet
    /\ \E c \in ModelSpellings : cwd = c[1] /\ m2_path = c[2] /\ unreadable = c[3]
    /\ local_dir = PathParent(PathOf(m2_path))
    /\ m2_dir = [is_dir |-> IsDir(local_dir), names |-> Entries(local_dir)]
    /\ model_base = ModelBase(m2.name, m2_path)
    /\ fpc = "start" /\ all_blps = <<>> /\ fidx = 0
    /\ base_skins = <<>> /\ extra_skins = <<>> /\ plain_texture = <<>>
    /\ tex_map = <<>>
    /\ tex_path = <<>> /\ rpc = "idle" /\ ridx = 0 /\ tried = <<>>
    /\ resolved = Running
    /\ xpc = "loop" /\ ti = 0 /\ tex_files = <<>>

\* lines 449-450 called at line 540: iterdir of a directory that may not be
\* listed raises, and nothing catches it
FindRaise ==
    /\ fpc = "start" /\ m2_dir.is_dir /\ unreadable
    /\ fpc' = "raised" /\ xpc' = "raised"
    /\ UNCHANGED <<m2_dir, model_base, all_blps, fidx, base_skins, extra_skins,
                   plain_texture, tex_map>>
    /\ UNCHANGED <<m2_path, unreadable, ti, tex_files>>
    /\ UNCHANGED <<pathVars, exceptTex>>

\* the slot the loop of line 546 is at
tex == At(m2.textures, ti)
InLoop == xpc = "loop" /\ fpc = "done" /\ m2.textures # <<>>

\* lines 547-550: a replaceable texture
SlotByType ==
    /\ InLoop /\ ti < Len(m2.textures) /\ tex.filename = <<>>
    /\ tex_files' = IF tex.type \in DOMAIN tex_map
                    THEN DictPut(tex_files, ti, ByType(tex_map)[tex.type])
                    ELSE tex_files
    /\ ti' = ti + 1
    /\ UNCHANGED <<m2_path, unreadable, xpc>>
    /\ UNCHANGED <<findVars, pathVars, exceptTex>>

\* lines 551-553: a hardcoded path, _resolve_texture_path is entered
SlotCallPath ==
    /\ InLoop /\ ti < Len(m2.textures) /\ tex.filename # <<>>
    /\ tex_path' = tex.filename
    /\ rpc' = "local" /\ ridx' = 0 /\ tried' = <<>> /\ resolved' = Running
    /\ xpc' = "call"
    /\ UNCHANGED <<fs, cwd, local_dir>>
    /\ UNCHANGED <<m2_path, unreadable, ti, tex_files>>
    /\ UNCHANGED <<findVars, exceptTex>>

\* lines 553-555: it returned a path or None
SlotPathReturn ==
    /\ xpc = "call" /\ rpc = "done" /\ resolved.kind \in {"path", "none"}
    /\ tex_files' = IF resolved.kind = "path"
                    THEN DictPut(tex_files, ti, resolved.path)
                    ELSE tex_files
    /\ ti' = ti + 1 /\ xpc' = "loop" /\ rpc' = "idle"
    /\ UNCHANGED <<fs, cwd, local_dir, tex_path, ridx, tried, resolved>>
    /\ UNCHANGED <<m2_path, unreadable>>
    /\ UNCHANGED <<findVars, exceptTex>>

\* line 553: it raised, and nothing catches it
SlotPathRaise ==
    /\ xpc = "call" /\ rpc = "done" /\ resolved.kind = "error"
    /\ xpc' = "raised" /\ rpc' = "idle"
    /\ UNCHANGED <<fs, cwd, local_dir, tex_path, ridx, tried, resolved>>
    /\ UNCHANGED <<m2_path, unreadable, ti, tex_files>>
    /\ UNCHANGED <<findVars, exceptTex>>

\* lines 546 and 560: the table is through
Finish ==
    /\ InLoop /\ ti = Len(m2.textures)
    /\ xpc' = "done"
    /\ UNCHANGED <<m2_path, unreadable, ti, tex_files>>
    /\ UNCHANGED <<findVars, pathVars, exceptTex>>

\* lines 556-560: no texture table
NoTable ==
    /\ xpc = "loop" /\ fpc = "done" /\ m2.textures = <<>>
    /\ tex_files' = ByType(tex_map)
    /\ xpc' = "done"
    /\ UNCHANGED <<m2_path, unreadable, ti>>
    /\ UNCHANGED <<findVars, pathVars, exceptTex>>

NextTextures ==
    \/ FindNotDir \/ FindList \/ FindRaise \/ ClassifyStep \/ Select \/ PlainFallback
    \/ SlotByType \/ SlotCallPath \/ SlotPathReturn \/ SlotPathRaise
    \/ ListError \/ LocalMatch \/ LocalMiss \/ WalkHit \/ WalkMiss \/ WalkEnd
    \/ Finish \/ NoTable

SpecTextures == InitTextures /\ [][NextTextures]_vars

\* ------------------------------------- claims on _resolve_textures
\* the call returned / the call ended with an exception
TexReturned == xpc = "done"
TexRaised == xpc = "raised"
\* the directory of the model cannot be listed
DirFails == ~IsDir(local_dir) \/ unreadable
Slots == 0..(Len(m2.textures) - 1)
Slot(i) == At(m2.textures, i)

\* C22: a search directory that is missing, is no directory or cannot be
\* listed makes both strategies find nothing: the call of _resolve_textures
\* never ends with an exception, and with such a directory it returns the
\* empty mapping.
C22_FailureDegrades ==
    /\ ~TexRaised
    /\ (TexReturned /\ DirFails) => tex_files = <<>>
\* a directory that cannot be listed, met by each of the two strategies
C22_RaisedByFind == TexRaised /\ fpc = "raised" /\ unreadable
C22_RaisedByPath ==
    /\ TexRaised /\ fpc = "done" /\ resolved = Raises /\ ~IsDir(local_dir)
    /\ Slot(ti).filename # <<>>
\* what holds of the code: a directory that fails is survived only when it
\* is missing and no slot of the table carries a path
C22_SurvivesOnlyMissing ==
    (TexReturned /\ DirFails) =>
        /\ ~IsDir(local_dir) /\ ~unreadable /\ tex_files = <<>>
        /\ \A i \in Slots : Slot(i).filename = <<>>

\* what the hardcoded-path strategy finds for a file name: an entry of the
\* directory with the name of its last component, or the path under one of
\* the parents the walk visits
PathFinds(fn) ==
    LET norm == Replace(fn, "\\", "/")
    IN  \/ \E n \in Entries(local_dir) :
              StrLower(n) = StrLower(PathName(PathOf(norm)))
        \/ \E k \in 1..Len(Parents(local_dir)) :
              Exists(Join(Parents(local_dir)[k], norm))
\* slot i by its own strategy
OwnStrategyFinds(i) ==
    IF Slot(i).filename # <<>> THEN PathFinds(Slot(i).filename)
    ELSE Slot(i).type \in DOMAIN tex_map
SlotDispatch ==
    /\ (TexReturned /\ m2.textures # <<>>) =>
          /\ DOMAIN tex_files \subseteq Slots
          /\ \A i \in Slots :
                /\ i \in DOMAIN tex_files <=> OwnStrategyFinds(i)
                /\ (i \in DOMAIN tex_files /\ Slot(i).filename = <<>>) =>
                      tex_files[i] = ChildPath(tex_map[Slot(i).type])
                /\ (i \in DOMAIN tex_files /\ Slot(i).filename # <<>>) =>
                      Exists(tex_files[i])
    /\ (TexReturned /\ m2.textures = <<>>) => tex_files = ByType(tex_map)

\* C21: with a texture table, slot i is in the output iff its own strategy
\* found a file (the path strategy for a slot with an embedded path, the
\* naming-convention map of its type for a slot without), every key is a slot
\* index, and a slot that is not resolved raises no error; without a table
\* the output is the naming-convention map, keyed by type.
C21_SlotStrategy == SlotDispatch /\ ~TexRaised
\* the dispatch of every call that returns
C21_DispatchOfReturned == SlotDispatch
\* a returned table with a path slot that its type would have resolved but
\* its path does not, next to a replaceable slot resolved by type
C21_PathSlotNotByType ==
    /\ TexReturned /\ Len(m2.textures) = 2
    /\ \E i \in Slots :
          /\ Slot(i).filename # <<>> /\ Slot(i).type \in DOMAIN tex_map
          /\ i \notin DOMAIN tex_files
    /\ \E i \in Slots : Slot(i).filename = <<>> /\ i \in DOMAIN tex_files

\* C28: the naming-convention map has keys within {1, 8, 11}, key 11 only
\* when neither 1 nor 8 is mapped, and it is empty iff the directory has no
\* .blp file whose stem starts (case-insensitively) with the base name; so a
\* replaceable slot of another type is never in the output.
C28_TypeKeys ==
    /\ DOMAIN tex_map \subseteq {1, 8, 11}
    /\ 11 \in DOMAIN tex_map => DOMAIN tex_map = {11}
    /\ fpc = "done" => (tex_map = <<>> <=> Candidates = {})
    /\ m2.textures # <<>> =>
          \A i \in DOMAIN tex_files :
              Slot(i).filename = <<>> => Slot(i).type \in {1, 8, 11}
\* a returned table whose type-1 slot is resolved while its type-2 slot is
\* not, in a directory that also holds a plain texture
C28_Witness ==
    /\ TexReturned /\ DOMAIN tex_map = {1, 8}
    /\ Nm.Bear_blp \in Candidates
    /\ \E i \in Slots : Slot(i) = [type |-> 2, filename |-> <<>>] /\ i \notin DOMAIN tex_files
    /\ \E i \in Slots : Slot(i) = [type |-> 1, filename |-> <<>>] /\ i \in DOMAIN tex_files
\* a directory with a plain texture only: type 11 alone
C28_WitnessPlain ==
    /\ TexReturned /\ DOMAIN tex_map = {11} /\ Candidates = {Nm.Bear_blp}
    /\ \E i \in Slots : Slot(i).type = 11 /\ i \in DOMAIN tex_files
====
